---- MODULE Spec2Model ----
(***************************************************************************)
(* Star-growth analytics: the ROSS quarterly window scanner and ranker     *)
(* (scripts/rank_ross_quarter.js), the calendar helpers                    *)
(* (scripts/utils/time.js), the Holt-Winters forecaster                    *)
(* (scripts/forecast.js), the aggregation (scripts/aggregate_weekly.js),   *)
(* the plain quarter ranker (scripts/rank_quarter.js), the star fetcher    *)
(* (scripts/fetch_stars.js) and githubRequest                              *)
(* (scripts/enrich_contributor_locations.js).                              *)
(*                                                                         *)
(* Representation.  An ISO date string "YYYY-MM-DD" is the tuple           *)
(* <<year, month, day>>; the string comparison the code uses on dates is   *)
(* the lexicographic comparison of the tuples (years have four digits).    *)
(* A JavaScript Date at UTC midnight is its day number since 1970-01-01.   *)
(* null is NULL; UNDEFINED is a value that is no array.  A relative gain,   *)
(* which the code holds as the double gain / startVal, is the exact        *)
(* fraction <<gain, startVal>>; fractions are compared by cross            *)
(* multiplication.                                                         *)
(***************************************************************************)
EXTENDS Integers, Sequences, FiniteSets, TLC

VARIABLES
    job,            \* which function or script runs: "scan" | "rank" | "hw" | "forecast" | "time" | "quarter"
                    \* | "aggregate" | "rankq" | "fetch" | "request"
    pc,             \* position of the running function
    cumulative,     \* maxRossWindowForQuarter: argument
    quarterStart,   \* maxRossWindowForQuarter: argument
    quarterEnd,     \* maxRossWindowForQuarter: argument
    end,            \* maxRossWindowForQuarter: loop variable (a Date)
    best,           \* maxRossWindowForQuarter: local
    probe,          \* maxRossWindowForQuarter: locals of the last iteration
    result,         \* value returned by the function under pc = "done"
    year,           \* rankRossQuarter: argument
    q,              \* rankRossQuarter: argument
    weeklyDir,      \* rankRossQuarter: the files of data/derived/weekly, as readdirSync lists them
    f,              \* rankRossQuarter: position of the for..of loop in weeklyDir
    rows,           \* rankRossQuarter: local
    outFile,        \* rankRossQuarter: content of data/derived/quarter-ross/YEAR-Qn.json
    series,         \* holtWintersAdditive: argument
    seasonLen,      \* holtWintersAdditive: argument
    alpha,          \* holtWintersAdditive: argument
    beta,           \* holtWintersAdditive: argument
    gamma,          \* holtWintersAdditive: argument
    horizon,        \* holtWintersAdditive, forecastTop: argument
    level,          \* holtWintersAdditive: local
    trend,          \* holtWintersAdditive: local
    season,         \* holtWintersAdditive: local
    t,              \* holtWintersAdditive: variable of the smoothing loop
    h,              \* holtWintersAdditive: variable of the projection loop
    fc,             \* holtWintersAdditive: local
    top,            \* forecastTop: the parsed data/derived/quarter/<quarterKey>.json
    weeklyStore,    \* forecastTop: the parsed files of data/derived/weekly, by repository
    r,              \* forecastTop: position of the for..of loop in top
    forecastDir,    \* forecastTop: the files written to data/derived/forecast, by repository
    quarterFile,    \* forecastTop: content of data/derived/quarter/<quarterKey>.json, NoFile when absent
    isoDate,        \* isoWeekKey: argument
    weekKey,        \* isoWeekKey: value returned; weeksToBounds: argument
    bounds,         \* weeksToBounds: value returned
    ts,             \* aggregate_weekly.js: the parsed file of data/raw/stars, then sorted
    daily,          \* aggregate_weekly.js: local of the loop body
    payload,        \* aggregate_weekly.js: what is written to data/derived/weekly
    rawFile,        \* fetch_stars.js: the file of the repository in data/raw/stars
    api,            \* fetch_stars.js: the repository at GitHub and its stargazers, oldest first
    ghToken,        \* fetch_stars.js: whether GH_TOKEN or GITHUB_TOKEN is set
    existing,       \* fetch_stars.js: local of the main loop
    knownNewest,    \* fetch_stars.js: local of the main loop
    acc,            \* fetchStargazerTimestamps: local
    page,           \* fetchStargazerTimestamps: local
    limited,        \* fetchStargazerTimestamps: 403 responses met in this run
    runs,           \* fetch_stars.js: runs of the script finished so far
    attempt,        \* githubRequest: argument
    responses,      \* githubRequest: the responses fetch has returned for the request
    sleeps          \* githubRequest: the sleeps made for the request, in ms

scanVars == <<cumulative, quarterStart, quarterEnd, end, best, probe>>
rankVars == <<year, q, weeklyDir, f, rows, outFile>>
hwVars == <<series, seasonLen, alpha, beta, gamma, level, trend, season, t, h, fc>>
topVars == <<top, weeklyStore, r, forecastDir, quarterFile>>
timeVars == <<isoDate, weekKey, bounds>>
aggVars == <<ts, daily, payload>>
fetchVars == <<rawFile, api, ghToken, existing, knownNewest, acc, page, limited, runs>>
reqVars == <<attempt, responses, sleeps>>
moreVars == <<aggVars, fetchVars, reqVars>>
vars == <<job, pc, result, scanVars, rankVars, hwVars, horizon, topVars, timeVars, moreVars>>

NULL == <<>>
\* a value that is not an array (a missing "cumulative" field)
UNDEFINED == <<[date |-> NULL, value |-> -1]>>

-----------------------------------------------------------------------------
(* Bounds of the explored inputs *)

MaxLen == 3                      \* entries in a cumulative series

MaxFiles == 2                    \* files of a weekly directory listed in every order

BigFiles == 130                  \* files of a weekly directory built from a pattern

MaxWeeks == 4                    \* values of a weekly series given to holtWintersAdditive

MaxHorizon == 3                  \* horizon given to holtWintersAdditive

MaxTop == 2                      \* rows of the quarter file read by forecastTop

MaxDays == 2940                  \* dates given to isoWeekKey, counted from FirstDate

MaxYears == 102                  \* years given to quarterBounds, counted from FirstYear
MaxStars == 3                    \* timestamps in a short file of data/raw/stars
MaxRuns == 2                     \* runs of fetch_stars.js for one repository
MaxLimited == 1                  \* 403 responses to the page requests of one run
MaxSends == 8                    \* times githubRequest sends one request

-----------------------------------------------------------------------------
(* JavaScript Date: parsing, day arithmetic, formatting *)

\* new Date(iso + "T00:00:00Z"), as a day number (proleptic Gregorian)
ParseISO(iso) ==
    LET y   == IF iso[2] <= 2 THEN iso[1] - 1 ELSE iso[1]
        era == y \div 400
        yoe == y - era * 400
        mp  == (iso[2] + 9) % 12
        doy == (153 * mp + 2) \div 5 + iso[3] - 1
        doe == yoe * 365 + yoe \div 4 - yoe \div 100 + doy
    IN  era * 146097 + doe - 719468

\* d.toISOString().slice(0,10) of the Date with day number z
ToISO(z) ==
    LET zz  == z + 719468
        era == zz \div 146097
        doe == zz - era * 146097
        yoe == (doe - doe \div 1460 + doe \div 36524 - doe \div 146096) \div 365
        doy == doe - (365 * yoe + yoe \div 4 - yoe \div 100)
        mp  == (5 * doy + 2) \div 153
        d   == doy - (153 * mp + 2) \div 5 + 1
        m   == IF mp < 10 THEN mp + 3 ELSE mp - 9
        y   == yoe + era * 400
    IN  <<IF m <= 2 THEN y + 1 ELSE y, m, d>>

\* a <= b on two ISO date strings
DateLeq(a, b) ==
    \/ a[1] < b[1]
    \/ a[1] = b[1] /\ a[2] < b[2]
    \/ a[1] = b[1] /\ a[2] = b[2] /\ a[3] <= b[3]

addDays(iso, days) == ToISO(ParseISO(iso) + days)

-----------------------------------------------------------------------------
(* scripts/utils/time.js *)

\* the second quarter ending on "06-31", not a day of the calendar
quarterBounds_june31(yr, qn) ==
    LET starts == << <<1, 1>>, <<4, 1>>, <<7, 1>>, <<10, 1>> >>
        ends   == << <<3, 31>>, <<6, 31>>, <<9, 30>>, <<12, 31>> >>
    IN  [start |-> <<yr, starts[qn][1], starts[qn][2]>>,
         end   |-> <<yr, ends[qn][1], ends[qn][2]>>]

quarterBounds(yr, qn) ==
    LET starts == << <<1, 1>>, <<4, 1>>, <<7, 1>>, <<10, 1>> >>
        ends   == << <<3, 31>>, <<6, 30>>, <<9, 30>>, <<12, 31>> >>
    IN  [start |-> <<yr, starts[qn][1], starts[qn][2]>>,
         end   |-> <<yr, ends[qn][1], ends[qn][2]>>]

\* d.getUTCDay() of the Date with day number z (0 = Sunday)
getUTCDay(z) == (z + 4) % 7

RECURSIVE Digits(_)
\* String(n) of an integer n >= 0, as the sequence of its decimal digits
Digits(n) == IF n < 10 THEN <<n>> ELSE Append(Digits(n \div 10), n % 10)

\* str.padStart(2, '0') of a string of digits
PadStart2(ds) == IF Len(ds) >= 2 THEN ds ELSE [i \in 1..(2 - Len(ds)) |-> 0] \o ds

RECURSIVE DigitsValue(_, _)
\* Number(str) of a string of digits, from the value sofar of the digits read
DigitsValue(ds, sofar) ==
    IF ds = <<>> THEN sofar ELSE DigitsValue(Tail(ds), 10 * sofar + Head(ds))

\* the week key `${year}-W${ww}` is the record of the year and of the
\* digits ww that follow "-W"
WeekKey(yr, ww) == [year |-> yr, ww |-> ww]

\* Math.round without the half added: the integer below
MathRound_floor(x) == x[1] \div x[2]

\* Math.round of the fraction x: the nearest integer, the larger of two
\* equally near ones
MathRound(x) == (2 * x[1] + x[2]) \div (2 * x[2])

isoWeekKey(iso) ==
    LET d     == ParseISO(iso)
        day   == (getUTCDay(d) + 6) % 7
        thurs == d - day + 3
        week1 == ParseISO(<<ToISO(thurs)[1], 1, 4>>)
        week  == 1 + MathRound(<<thurs - week1, 7>>)
    IN  WeekKey(ToISO(thurs)[1], PadStart2(Digits(week)))

weeksToBounds(key) ==
    LET y      == key.year
        w      == DigitsValue(key.ww, 0)
        simple == ParseISO(<<y, 1, 1>>) + (w - 1) * 7
        dow    == (getUTCDay(simple) + 6) % 7
        monday == simple - dow
        sunday == monday + 6
    IN  [start |-> ToISO(monday), end |-> ToISO(sunday)]

-----------------------------------------------------------------------------
(* scripts/rank_ross_quarter.js: cumAt, maxRossWindowForQuarter *)

RECURSIVE cumAtFrom_strict(_, _, _, _)
\* cumAt comparing with < where the code compares with <=
cumAtFrom_strict(cum, dateISO, i, last) ==
    IF i > Len(cum) THEN last
    ELSE IF DateLeq(cum[i].date, dateISO) /\ cum[i].date # dateISO
         THEN cumAtFrom_strict(cum, dateISO, i + 1, cum[i].value)
         ELSE last

RECURSIVE cumAtFrom(_, _, _, _)
\* the for..of loop of cumAt from entry i on, with the current value of last
cumAtFrom(cum, dateISO, i, last) ==
    IF i > Len(cum) THEN last
    ELSE IF DateLeq(cum[i].date, dateISO)
         THEN cumAtFrom(cum, dateISO, i + 1, cum[i].value)
         ELSE last

cumAt(cum, dateISO) == cumAtFrom(cum, dateISO, 1, 0)

Sentinel ==
    [rel_gain |-> <<0, 1>>, abs_gain |-> 0, start |-> NULL, end |-> NULL,
     start_val |-> 0, end_val |-> 0]

\* a > b on two fractions with positive denominators
RelGT(a, b) == a[1] * b[2] > b[1] * a[2]

MinStartStars == 1000

WindowBack == 89

\* the locals of an iteration whose window starts 90 days before its end
Window_90(cum, e) ==
    LET endISO   == ToISO(e)
        startISO == addDays(endISO, 0 - (WindowBack + 1))
        startVal == cumAt(cum, startISO)
        endVal   == cumAt(cum, endISO)
    IN  [endISO |-> endISO, startISO |-> startISO, startVal |-> startVal,
         endVal |-> endVal, gain |-> endVal - startVal]

\* the locals of one loop iteration for the window end with day number e
Window(cum, e) ==
    LET endISO   == ToISO(e)
        startISO == addDays(endISO, 0 - WindowBack)
        startVal == cumAt(cum, startISO)
        endVal   == cumAt(cum, endISO)
    IN  [endISO |-> endISO, startISO |-> startISO, startVal |-> startVal,
         endVal |-> endVal, gain |-> endVal - startVal]

\* the score of a window taken as its gain, not divided by the start value
RelGain_abs(w) == <<w.gain, 1>>

\* line 50: rel = startVal > 0 ? gain / startVal : 0
RelGain(w) == IF w.startVal > 0 THEN <<w.gain, w.startVal>> ELSE <<0, 1>>

NewBest(w, rel) ==
    [rel_gain |-> rel, abs_gain |-> w.gain, start |-> w.startISO,
     end |-> w.endISO, start_val |-> w.startVal, end_val |-> w.endVal]

\* the loop body with the floor test one star too low
ScanBody_floor999(cum, b, e) ==
    LET w   == Window(cum, e)
        rel == IF w.startVal > 0 THEN <<w.gain, w.startVal>> ELSE <<0, 1>>
    IN  IF w.startVal < MinStartStars - 1 THEN b
        ELSE IF RelGT(rel, b.rel_gain) THEN NewBest(w, rel) ELSE b

\* the loop body replacing best on rel >= best.rel_gain
ScanBody_geq(cum, b, e) ==
    LET w   == Window(cum, e)
        rel == IF w.startVal > 0 THEN <<w.gain, w.startVal>> ELSE <<0, 1>>
    IN  IF w.startVal < MinStartStars THEN b
        ELSE IF ~RelGT(b.rel_gain, rel) THEN NewBest(w, rel) ELSE b

\* the loop body scoring a window by its absolute gain
ScanBody_abs(cum, b, e) ==
    LET w   == Window(cum, e)
        rel == IF w.startVal > 0 THEN <<w.gain, w.startVal>> ELSE <<0, 1>>
    IN  IF w.startVal < MinStartStars THEN b
        ELSE IF w.gain > b.abs_gain THEN NewBest(w, rel) ELSE b

\* the loop body: the value of best after the iteration for window end e
ScanBody(cum, b, e) ==
    LET w   == Window(cum, e)
        rel == RelGain(w)
    IN  IF w.startVal < MinStartStars THEN b
        ELSE IF RelGT(rel, b.rel_gain) THEN NewBest(w, rel) ELSE b

RECURSIVE ScanFrom(_, _, _, _)
\* the for loop over the window ends e..last in ascending order, starting
\* with the value b of best; the range is walked in two halves, first the
\* lower and then the upper, which keeps the recursion shallow
ScanFrom(cum, b, e, last) ==
    IF e > last \/ b.abs_gain # b.abs_gain THEN b
    ELSE IF e = last THEN ScanBody(cum, b, e)
    ELSE ScanFrom(cum, ScanFrom(cum, b, e, (e + last) \div 2),
                  (e + last) \div 2 + 1, last)

IsNonEmptyArray(c) == c # UNDEFINED /\ Len(c) > 0

maxRossWindowForQuarter(cum, qStart, qEnd) ==
    IF ~IsNonEmptyArray(cum) THEN Sentinel
    ELSE ScanFrom(cum, Sentinel, ParseISO(qStart), ParseISO(qEnd))

-----------------------------------------------------------------------------
(* Inputs of the scanner *)

\* the quarters scanned, as (year, quarter): a leap-year first quarter of 91
\* days, a first quarter of 90 days, two quarters of 92 days
ScanArgs == {<<2024, 1>>, <<2025, 1>>, <<2024, 3>>, <<2025, 4>>}

\* day offsets from the quarter start at which a series may have an entry:
\* before every window, the first window's start, among the windows' starts,
\* the quarter start, the first day after a 90-day quarter
DateOffsets == {-90, -89, -30, 0, 90}

StarValues == {999, 1000, 2000, 3500}

Entries(qStart) ==
    {[date |-> addDays(qStart, o), value |-> v] : o \in DateOffsets, v \in StarValues}

\* sorted strictly ascending by date
SortedByDate(s) ==
    \A i \in 1..(Len(s) - 1) : DateLeq(s[i].date, s[i + 1].date) /\ s[i].date # s[i + 1].date

SeriesOfLen(qStart, n) == {s \in [1..n -> Entries(qStart)] : SortedByDate(s)}

SeriesInputs(qStart) ==
    {UNDEFINED} \cup UNION {SeriesOfLen(qStart, n) : n \in 0..MaxLen}

RankIdle ==
    /\ year = 0 /\ q = 0 /\ weeklyDir = <<>> /\ f = 0 /\ rows = <<>> /\ outFile = NULL

HWIdle ==
    /\ series = <<>> /\ seasonLen = 0 /\ alpha = <<0, 1>> /\ beta = <<0, 1>>
    /\ gamma = <<0, 1>> /\ level = <<0, 1>> /\ trend = <<0, 1>> /\ season = <<>>
    /\ t = 0 /\ h = 0 /\ fc = <<>>

\* what stands for the content of a file that does not exist
NoFile == <<[repo |-> 0]>>

TopIdle ==
    /\ top = <<>> /\ weeklyStore = <<>> /\ r = 0 /\ forecastDir = <<>>
    /\ quarterFile = NoFile

TimeIdle ==
    /\ isoDate = NULL /\ weekKey = NULL /\ bounds = NULL

AggIdle ==
    /\ ts = <<>> /\ daily = <<>> /\ payload = NULL

FetchIdle ==
    /\ rawFile = [exists |-> FALSE, stars |-> <<>>]
    /\ api = [found |-> FALSE, stars |-> <<>>]
    /\ ghToken = FALSE /\ existing = <<>> /\ knownNewest = NULL /\ acc = <<>>
    /\ page = 0 /\ limited = 0 /\ runs = 0

ReqIdle ==
    /\ attempt = 0 /\ responses = <<>> /\ sleeps = <<>>

MoreIdle == AggIdle /\ FetchIdle /\ ReqIdle

NoProbe == [endISO |-> NULL, startISO |-> NULL, startVal |-> 0, endVal |-> 0, gain |-> 0]

ScanIdle ==
    /\ cumulative = <<>> /\ quarterStart = NULL /\ quarterEnd = NULL
    /\ end = 0 /\ best = Sentinel /\ probe = NoProbe

-----------------------------------------------------------------------------
(* The scanner as a state machine *)

InitScan ==
    /\ job = "scan"
    /\ pc = "entry"
    /\ \E a \in ScanArgs :
          /\ quarterStart = quarterBounds(a[1], a[2]).start
          /\ quarterEnd = quarterBounds(a[1], a[2]).end
    /\ cumulative \in SeriesInputs(quarterStart)
    /\ end = 0
    /\ best = Sentinel
    /\ probe = NoProbe
    /\ result = NULL
    /\ RankIdle
    /\ HWIdle /\ horizon = 0 /\ TopIdle /\ TimeIdle
    /\ MoreIdle

\* lines 39-43: the early return, or the loop initialisation
ScanEnter ==
    /\ job = "scan" /\ pc = "entry"
    /\ IF ~IsNonEmptyArray(cumulative)
       THEN /\ pc' = "done"
            /\ result' = Sentinel
            /\ UNCHANGED end
       ELSE /\ pc' = "loop"
            /\ end' = ParseISO(quarterStart)
            /\ UNCHANGED result
    /\ best' = Sentinel
    /\ UNCHANGED <<job, cumulative, quarterStart, quarterEnd, probe, rankVars>>
    /\ UNCHANGED <<hwVars, horizon, topVars>>
    /\ UNCHANGED timeVars
    /\ UNCHANGED moreVars

\* lines 43-52: one iteration of the for loop
ScanStep ==
    /\ job = "scan" /\ pc = "loop"
    /\ end <= ParseISO(quarterEnd)
    /\ probe' = Window(cumulative, end)
    /\ best' = ScanBody(cumulative, best, end)
    /\ end' = end + 1
    /\ UNCHANGED <<job, pc, result, cumulative, quarterStart, quarterEnd, rankVars>>
    /\ UNCHANGED <<hwVars, horizon, topVars>>
    /\ UNCHANGED timeVars
    /\ UNCHANGED moreVars

\* line 53
ScanReturn ==
    /\ job = "scan" /\ pc = "loop"
    /\ end > ParseISO(quarterEnd)
    /\ pc' = "done"
    /\ result' = best
    /\ UNCHANGED <<job, scanVars, rankVars, hwVars, horizon, topVars>>
    /\ UNCHANGED timeVars
    /\ UNCHANGED moreVars

NextScan == ScanEnter \/ ScanStep \/ ScanReturn

SpecScan == InitScan /\ [][NextScan]_vars

-----------------------------------------------------------------------------
(* scripts/rank_ross_quarter.js: rankRossQuarter *)

\* if (!best.start && best.rel_gain < 0) continue
Skips_and(b) == b.start = NULL /\ RelGT(<<0, 1>>, b.rel_gain)

\* if (!best.start || best.rel_gain <= 0) continue
Skips(b) == b.start = NULL \/ ~RelGT(b.rel_gain, <<0, 1>>)

\* Number(x.toFixed(6)) of a fraction x >= 0, in millionths: the nearest
\* multiple of 0.000001, the larger one when two are equally near
toFixed6(x) ==
    LET n1 == x[1] * 1000
        q1 == n1 \div x[2]
        n2 == (n1 % x[2]) * 1000
        q2 == n2 \div x[2]
        r2 == n2 % x[2]
    IN  q1 * 1000 + q2 + (IF 2 * r2 >= x[2] THEN 1 ELSE 0)

\* the row pushed for a file and its best window (lines 94-111)
Row(file, b) ==
    [repo |-> file.repo,
     quarter |-> <<year, q>>,
     stars_now |-> IF file.meta = NULL THEN NULL ELSE file.meta.stars_now,
     forks |-> IF file.meta = NULL THEN NULL ELSE file.meta.forks,
     open_issues |-> IF file.meta = NULL THEN NULL ELSE file.meta.open_issues,
     subscribers |-> IF file.meta = NULL THEN NULL ELSE file.meta.subscribers,
     best_window_start |-> b.start,
     best_window_end |-> b.end,
     window_start_stars |-> b.start_val,
     window_end_stars |-> b.end_val,
     abs_gain_90d |-> b.abs_gain,
     rel_gain_90d |-> toFixed6(b.rel_gain),
     owner |-> file.owner]

\* the comparator of line 114: negative when a sorts before b
CompareRows(a, b) == b.rel_gain_90d - a.rel_gain_90d

RECURSIVE FirstAfter_unstable(_, _, _, _)
\* the first position in lo..hi of rs whose row does not sort before row
FirstAfter_unstable(rs, row, lo, hi) ==
    IF lo > hi THEN 0
    ELSE IF lo = hi THEN (IF CompareRows(rs[lo], row) >= 0 THEN lo ELSE 0)
    ELSE LET l == FirstAfter_unstable(rs, row, lo, (lo + hi) \div 2)
         IN  IF l # 0 THEN l
             ELSE FirstAfter_unstable(rs, row, (lo + hi) \div 2 + 1, hi)

RECURSIVE FirstAfter(_, _, _, _)
\* the first position in lo..hi of rs whose row sorts after row, or 0 when
\* there is none; the range is searched in two halves, the lower one first
FirstAfter(rs, row, lo, hi) ==
    IF lo > hi THEN 0
    ELSE IF lo = hi THEN (IF CompareRows(rs[lo], row) > 0 THEN lo ELSE 0)
    ELSE LET l == FirstAfter(rs, row, lo, (lo + hi) \div 2)
         IN  IF l # 0 THEN l ELSE FirstAfter(rs, row, (lo + hi) \div 2 + 1, hi)

\* row inserted into the sorted rows rs behind every row that does not sort
\* after it (Array.prototype.sort is stable)
InsertRow(rs, row) ==
    LET i == FirstAfter(rs, row, 1, Len(rs))
    IN  IF i = 0 THEN Append(rs, row)
        ELSE SubSeq(rs, 1, i - 1) \o <<row>> \o SubSeq(rs, i, Len(rs))

RECURSIVE SortFrom(_, _, _, _)
\* the rows lo..hi of rs inserted one after the other, in this order, into
\* the sorted rows sofar; the range is walked in two halves
SortFrom(rs, lo, hi, sofar) ==
    IF lo > hi \/ Len(sofar) < 0 THEN sofar
    ELSE IF lo = hi THEN InsertRow(sofar, rs[lo])
    ELSE SortFrom(rs, (lo + hi) \div 2 + 1, hi,
                  SortFrom(rs, lo, (lo + hi) \div 2, sofar))

\* rows.sort((a, b) => b.rel_gain_90d - a.rel_gain_90d)
SortRows(rs) == SortFrom(rs, 1, Len(rs), <<>>)

TopN == 100

\* .map((r, i) => ({ ...r, rank: i })) : ranks counted from 0
Top100_rank0(rs) ==
    [i \in 1..(IF Len(rs) < TopN THEN Len(rs) ELSE TopN) |->
        [row |-> rs[i], rank |-> i - 1]]

\* rows.slice(0, 100).map((r, i) => ({ ...r, rank: i + 1 }))
Top100(rs) ==
    [i \in 1..(IF Len(rs) < TopN THEN Len(rs) ELSE TopN) |->
        [row |-> rs[i], rank |-> i]]

-----------------------------------------------------------------------------
(* Inputs of the ranker *)

\* a series that reads a stars on the first window's start and b stars from
\* the quarter start on
Growth(qStart, a, b) ==
    <<[date |-> addDays(qStart, -90), value |-> a], [date |-> qStart, value |-> b]>>

SomeMeta == [stars_now |-> 4000, forks |-> 10, open_issues |-> 3, subscribers |-> 7]

SomeOwner == [owner |-> "o", owner_type |-> "User", location |-> NULL, website |-> NULL]

FileKinds == 1..9

\* the file of kind k holding repository id
KindFile(qStart, k, id) ==
    [repo |-> id,
     json |-> k # 9,
     meta |-> IF k % 2 = 0 THEN SomeMeta ELSE NULL,
     owner |-> IF k % 3 = 0 THEN SomeOwner ELSE NULL,
     cumulative |->
        CASE k = 1 -> <<>>
          [] k = 2 -> UNDEFINED
          [] k = 3 -> Growth(qStart, 999, 3500)
          [] k = 4 -> Growth(qStart, 1000, 1000)
          [] k = 5 -> Growth(qStart, 2000, 2001)
          [] k = 6 -> Growth(qStart, 2001, 2002)
          [] k = 7 -> Growth(qStart, 1000, 2000)
          [] k = 8 -> Growth(qStart, 2000, 3500)
          [] k = 9 -> Growth(qStart, 1000, 3500)]

\* every listing of at most MaxFiles files, in every order
SmallDirs(qStart) ==
    UNION {{[i \in 1..n |-> KindFile(qStart, ks[i], i)] : ks \in [1..n -> FileKinds]} :
              n \in 0..MaxFiles}

\* file i of the patterned listing (a, b, c): gains are distinct over 151
\* consecutive files when c = 1 and shared by c neighbouring files otherwise;
\* every fifth gain belongs to a series below the floor
PatternFile(qStart, a, b, c, i) ==
    LET g == ((a * i + b) % 151) \div c
    IN  [repo |-> i, json |-> TRUE, meta |-> NULL, owner |-> NULL,
         cumulative |-> IF g % 5 = 4 THEN Growth(qStart, 999, 999 + g)
                        ELSE Growth(qStart, 1000, 1000 + g)]

BigDirs(qStart) ==
    {[i \in 1..n |-> PatternFile(qStart, a, b, c, i)] :
        n \in {BigFiles - 5, BigFiles}, a \in {1, 150}, b \in {0, 2},
        c \in {1, 2}}

\* the (year, quarter) arguments of the explored runs
RankArgs == {<<2025, 1>>, <<2024, 3>>}

-----------------------------------------------------------------------------
(* The ranker as a state machine *)

InitRank ==
    /\ job = "rank"
    /\ pc = "entry"
    /\ \E a \in RankArgs : year = a[1] /\ q = a[2]
    /\ weeklyDir \in SmallDirs(quarterBounds(year, q).start)
                        \cup BigDirs(quarterBounds(year, q).start)
    /\ f = 0
    /\ rows = <<>>
    /\ outFile = NULL
    /\ result = NULL
    /\ ScanIdle
    /\ HWIdle /\ horizon = 0 /\ TopIdle /\ TimeIdle
    /\ MoreIdle

\* lines 81-84: the quarter bounds and the empty rows
RankEnter ==
    /\ job = "rank" /\ pc = "entry"
    /\ quarterStart' = quarterBounds(year, q).start
    /\ quarterEnd' = quarterBounds(year, q).end
    /\ rows' = <<>>
    /\ f' = 1
    /\ pc' = "loop"
    /\ UNCHANGED <<job, result, cumulative, end, best, probe, year, q, weeklyDir, outFile>>
    /\ UNCHANGED <<hwVars, horizon, topVars>>
    /\ UNCHANGED timeVars
    /\ UNCHANGED moreVars

\* lines 84-112: one iteration of the loop over the directory
RankFile ==
    /\ job = "rank" /\ pc = "loop"
    /\ f <= Len(weeklyDir)
    /\ LET file == weeklyDir[f]
           b    == maxRossWindowForQuarter(file.cumulative, quarterStart, quarterEnd)
       IN  rows' = IF ~file.json \/ Skips(b) THEN rows ELSE Append(rows, Row(file, b))
    /\ f' = f + 1
    /\ UNCHANGED <<job, pc, result, scanVars, year, q, weeklyDir, outFile>>
    /\ UNCHANGED <<hwVars, horizon, topVars>>
    /\ UNCHANGED timeVars
    /\ UNCHANGED moreVars

\* lines 114-118: sort in place, cut to the first 100, rank, write
RankWrite ==
    /\ job = "rank" /\ pc = "loop"
    /\ f > Len(weeklyDir)
    /\ rows' = SortRows(rows)
    /\ outFile' = Top100(rows')
    /\ pc' = "done"
    /\ UNCHANGED <<job, result, scanVars, year, q, weeklyDir, f>>
    /\ UNCHANGED <<hwVars, horizon, topVars>>
    /\ UNCHANGED timeVars
    /\ UNCHANGED moreVars

NextRank == RankEnter \/ RankFile \/ RankWrite

SpecRank == InitRank /\ [][NextRank]_vars

\* a star count above two million, from which a gain of one star is less
\* than half a millionth of the start value
HugeStars == 2000001

WideKinds == FileKinds \cup {10}

\* the file kinds of KindFile and the file of a repository that goes from
\* HugeStars to HugeStars + 1 stars
WideFile(qStart, k, id) ==
    IF k \in FileKinds THEN KindFile(qStart, k, id)
    ELSE [repo |-> id, json |-> TRUE, meta |-> NULL, owner |-> NULL,
          cumulative |-> Growth(qStart, HugeStars, HugeStars + 1)]

WideDirs(qStart) ==
    UNION {{[i \in 1..n |-> WideFile(qStart, ks[i], i)] : ks \in [1..n -> WideKinds]} :
              n \in 0..MaxFiles}

\* rankRossQuarter over short listings that may hold very large star counts
InitRankWide ==
    /\ job = "rank"
    /\ pc = "entry"
    /\ \E a \in RankArgs : year = a[1] /\ q = a[2]
    /\ weeklyDir \in WideDirs(quarterBounds(year, q).start)
    /\ f = 0
    /\ rows = <<>>
    /\ outFile = NULL
    /\ result = NULL
    /\ ScanIdle
    /\ HWIdle /\ horizon = 0 /\ TopIdle /\ TimeIdle
    /\ MoreIdle

SpecRankWide == InitRankWide /\ [][NextRank]_vars

-----------------------------------------------------------------------------
(* scripts/rank_quarter.js: rankQuarter *)
(* Its cumAt (lines 10-17) has the loop of the cumAt of rank_ross_quarter.js; *)
(* for (const r of cumulative) throws when p.cumulative is undefined.        *)

\* the row pushed for a file (lines 26-33)
DeltaRow(file, qStart, qEnd) ==
    [repo |-> file.repo,
     cumulative_start |-> cumAt(file.cumulative, qStart),
     cumulative_end |-> cumAt(file.cumulative, qEnd),
     delta |-> cumAt(file.cumulative, qEnd) - cumAt(file.cumulative, qStart)]

\* a comparator that sorts by delta ascending
CompareDelta_asc(a, b) == a.delta - b.delta

\* the comparator of line 36: negative when a sorts before b
CompareDelta(a, b) == b.delta - a.delta

\* rows.sort((a,b) => b.delta - a.delta), a stable sort: the row at position
\* i goes behind the rows that sort before it and the rows before position
\* i that compare equal to it
SortByDelta(rs) ==
    LET pos == [i \in 1..Len(rs) |->
                  1 + Cardinality({j \in 1..Len(rs) :
                          \/ CompareDelta(rs[j], rs[i]) < 0
                          \/ CompareDelta(rs[j], rs[i]) = 0 /\ j < i})] \o <<>>
    IN  [k \in 1..Len(rs) |-> rs[CHOOSE i \in 1..Len(rs) : pos[i] = k]]

\* a series with a stars from the day before the quarter on and b stars
\* from the 31st day of the quarter on
GrowthIn(qStart, a, b) ==
    <<[date |-> addDays(qStart, -1), value |-> a], [date |-> addDays(qStart, 30), value |-> b]>>

DeltaKinds == 1..8

\* the file of kind k holding repository id: an empty series, no series, a
\* file that is no .json file, no growth, growth, a first star inside the
\* quarter, a first star on the quarter's first day, stars after the quarter
DeltaFile(qStart, k, id) ==
    [repo |-> id,
     json |-> k # 3,
     cumulative |->
        CASE k = 1 -> <<>>
          [] k = 2 -> UNDEFINED
          [] k = 3 -> GrowthIn(qStart, 10, 90)
          [] k = 4 -> GrowthIn(qStart, 1000, 1000)
          [] k = 5 -> GrowthIn(qStart, 10, 50)
          [] k = 6 -> <<[date |-> addDays(qStart, 30), value |-> 50]>>
          [] k = 7 -> <<[date |-> qStart, value |-> 7]>>
          [] k = 8 -> <<[date |-> addDays(qStart, 100), value |-> 3]>>]

DeltaDirs(qStart) ==
    UNION {{[i \in 1..n |-> DeltaFile(qStart, ks[i], i)] : ks \in [1..n -> DeltaKinds]} :
              n \in 0..MaxFiles}

\* file i of the patterned listing (a, b, c): deltas are distinct over 151
\* consecutive files when c = 1 and shared by c neighbouring files otherwise
PatternDelta(qStart, a, b, c, i) ==
    [repo |-> i, json |-> TRUE,
     cumulative |-> GrowthIn(qStart, 10, 10 + ((a * i + b) % 151) \div c)]

BigDeltaDirs(qStart) ==
    {[i \in 1..n |-> PatternDelta(qStart, a, b, c, i)] :
        n \in {BigFiles - 5, BigFiles}, a \in {1, 150}, b \in {0, 2},
        c \in {1, 2}}

InitRankQ ==
    /\ job = "rankq"
    /\ pc = "entry"
    /\ \E a \in RankArgs : year = a[1] /\ q = a[2]
    /\ weeklyDir \in DeltaDirs(quarterBounds(year, q).start)
                     \cup BigDeltaDirs(quarterBounds(year, q).start)
    /\ f = 0
    /\ rows = <<>>
    /\ outFile = NULL
    /\ result = NULL
    /\ ScanIdle
    /\ HWIdle /\ horizon = 0 /\ TopIdle /\ TimeIdle
    /\ MoreIdle

\* lines 20-21
RankQEnter ==
    /\ job = "rankq" /\ pc = "entry"
    /\ quarterStart' = quarterBounds(year, q).start
    /\ quarterEnd' = quarterBounds(year, q).end
    /\ rows' = <<>>
    /\ f' = 1
    /\ pc' = "loop"
    /\ UNCHANGED <<job, result, cumulative, end, best, probe, year, q, weeklyDir, outFile>>
    /\ UNCHANGED <<hwVars, horizon, topVars, timeVars, moreVars>>

\* lines 23-34: one iteration of the loop over the directory
RankQFile ==
    /\ job = "rankq" /\ pc = "loop"
    /\ f <= Len(weeklyDir)
    /\ LET file == weeklyDir[f]
       IN  IF ~file.json
           THEN /\ f' = f + 1
                /\ UNCHANGED <<pc, rows>>
           ELSE IF file.cumulative = UNDEFINED
           THEN /\ pc' = "threw"
                /\ UNCHANGED <<f, rows>>
           ELSE /\ rows' = Append(rows, DeltaRow(file, quarterStart, quarterEnd))
                /\ f' = f + 1
                /\ UNCHANGED pc
    /\ UNCHANGED <<job, result, scanVars, year, q, weeklyDir, outFile>>
    /\ UNCHANGED <<hwVars, horizon, topVars, timeVars, moreVars>>

\* lines 36-41: sort in place, cut to the first 100, rank, write
\* data/derived/quarter/YEAR-Qn.json
RankQWrite ==
    /\ job = "rankq" /\ pc = "loop"
    /\ f > Len(weeklyDir)
    /\ rows' = SortByDelta(rows)
    /\ quarterFile' = Top100(rows')
    /\ pc' = "done"
    /\ UNCHANGED <<job, result, scanVars, year, q, weeklyDir, f, outFile>>
    /\ UNCHANGED <<top, weeklyStore, r, forecastDir>>
    /\ UNCHANGED <<hwVars, horizon, timeVars, moreVars>>

NextRankQ == RankQEnter \/ RankQFile \/ RankQWrite

SpecRankQ == InitRankQ /\ [][NextRankQ]_vars

-----------------------------------------------------------------------------
(* Numbers of the forecaster.  A number is the fraction <<n, d>> with d > 0 *)
(* in lowest terms.  The smoothing parameters explored are dyadic, so that  *)
(* every intermediate value is a dyadic fraction which a double holds       *)
(* exactly.                                                                 *)

RECURSIVE GCD(_, _)
GCD(a, b) == IF b = 0 THEN a ELSE GCD(b, a % b)

Abs(n) == IF n < 0 THEN 0 - n ELSE n

Norm(n, d) == <<n \div GCD(Abs(n), d), d \div GCD(Abs(n), d)>>

Num(n) == <<n, 1>>

\* the least common denominator of x and y
Den(x, y) == (x[2] \div GCD(x[2], y[2])) * y[2]

Add(x, y) ==
    Norm(x[1] * (Den(x, y) \div x[2]) + y[1] * (Den(x, y) \div y[2]), Den(x, y))

Sub(x, y) ==
    Norm(x[1] * (Den(x, y) \div x[2]) - y[1] * (Den(x, y) \div y[2]), Den(x, y))

Mul(x, y) == Norm(x[1] * y[1], x[2] * y[2])

-----------------------------------------------------------------------------
(* scripts/forecast.js: holtWintersAdditive *)

\* the parameters forecastTop passes, which are also the defaults
SeasonLen52 == 52

Alpha03 == <<3, 10>>

Beta01 == <<1, 10>>

Gamma03 == <<3, 10>>

\* series.length < seasonLen + 1
TooShort_off(ys, sLen) == Len(ys) < sLen + 1

\* series.length < seasonLen + 2
TooShort(ys, sLen) == Len(ys) < sLen + 2

\* Array(horizon).fill(0)
Zeros(n) == [i \in 1..n |-> 0]

\* the trend started at series[1] in place of series[1] - series[0]
HWStart_trendRaw(ys, sLen) ==
    [level  |-> Num(ys[1]),
     trend  |-> Num(ys[2]),
     season |-> [i \in 1..sLen |-> Num(ys[i] - ys[1])]]

\* lines 12-14: level, trend and the seasonal indices before the loop
HWStart(ys, sLen) ==
    [level  |-> Num(ys[1]),
     trend  |-> Num(ys[2] - ys[1]),
     season |-> [i \in 1..sLen |-> Num(ys[i] - ys[1])]]

\* the loop body with the seasonal index updated from the previous level
HWUpdate_oldLevel(st, ys, sLen, a, b, g, tt) ==
    LET y         == Num(ys[tt + 1])
        sIdx      == tt % sLen
        lastLevel == st.level
        newLevel  == Add(Mul(a, Sub(y, st.season[sIdx + 1])),
                         Mul(Sub(Num(1), a), Add(st.level, st.trend)))
        newTrend  == Add(Mul(b, Sub(newLevel, lastLevel)),
                         Mul(Sub(Num(1), b), st.trend))
        newSeason == Add(Mul(g, Sub(y, lastLevel)),
                         Mul(Sub(Num(1), g), st.season[sIdx + 1]))
    IN  [level  |-> newLevel,
         trend  |-> newTrend,
         season |-> [st.season EXCEPT ![sIdx + 1] = newSeason]]

\* lines 16-21: the loop body for step tt (0-based) on the state st
HWUpdate(st, ys, sLen, a, b, g, tt) ==
    LET y         == Num(ys[tt + 1])
        sIdx      == tt % sLen
        lastLevel == st.level
        newLevel  == Add(Mul(a, Sub(y, st.season[sIdx + 1])),
                         Mul(Sub(Num(1), a), Add(st.level, st.trend)))
        newTrend  == Add(Mul(b, Sub(newLevel, lastLevel)),
                         Mul(Sub(Num(1), b), st.trend))
        newSeason == Add(Mul(g, Sub(y, newLevel)),
                         Mul(Sub(Num(1), g), st.season[sIdx + 1]))
    IN  [level  |-> newLevel,
         trend  |-> newTrend,
         season |-> [st.season EXCEPT ![sIdx + 1] = newSeason]]

\* lines 26-27: the value pushed for step hh
HWProject(st, ys, sLen, hh) ==
    LET lastIdx == Len(ys) - 1
        sIdx    == (lastIdx + hh) % sLen
    IN  Add(Add(st.level, Mul(Num(hh), st.trend)), st.season[sIdx + 1])

\* Math.round(x) with no clamp
Clamp_noMax(x) == MathRound(x)

\* Math.max(0, Math.round(x))
Clamp(x) == IF MathRound(x) < 0 THEN 0 ELSE MathRound(x)

RECURSIVE HWSmoothFrom(_, _, _, _, _, _, _, _)
\* the loop of lines 15-22 for the steps lo..hi in ascending order; the range
\* is walked in two halves
HWSmoothFrom(st, ys, sLen, a, b, g, lo, hi) ==
    IF lo > hi \/ st.level # st.level THEN st
    ELSE IF lo = hi THEN HWUpdate(st, ys, sLen, a, b, g, lo)
    ELSE HWSmoothFrom(HWSmoothFrom(st, ys, sLen, a, b, g, lo, (lo + hi) \div 2),
                      ys, sLen, a, b, g, (lo + hi) \div 2 + 1, hi)

holtWintersAdditive(ys, sLen, a, b, g, hz) ==
    IF TooShort(ys, sLen) THEN [forecast |-> Zeros(hz)]
    ELSE LET st == HWSmoothFrom(HWStart(ys, sLen), ys, sLen, a, b, g, 0, Len(ys) - 1)
         IN  [forecast |-> [k \in 1..hz |-> Clamp(HWProject(st, ys, sLen, k))]]

-----------------------------------------------------------------------------
(* Inputs of holtWintersAdditive *)

WeeklyTotals == {0, 1, 5}

SeasonLens == {1, 2}

Smoothings == {<<1, 2>>, <<1, 4>>}

SeriesUpTo(n) == UNION {[1..k -> WeeklyTotals] : k \in 0..n}

\* the weeks of the known-series scenario: 60 weeks at one value
FlatWeeks == 60

FlatTotals == {0, 10}

\* a series of n weeks at the value c
Flat(n, c) == [i \in 1..n |-> c]

-----------------------------------------------------------------------------
(* holtWintersAdditive as a state machine *)

InitHW ==
    /\ job = "hw"
    /\ pc = "entry"
    /\ \/ /\ series \in SeriesUpTo(MaxWeeks)
          /\ seasonLen \in SeasonLens
          /\ alpha \in Smoothings
          /\ beta \in Smoothings
          /\ gamma = alpha
       \/ /\ series \in {Flat(FlatWeeks, c) : c \in FlatTotals}
          /\ seasonLen = SeasonLen52
          /\ alpha = Alpha03
          /\ beta = Beta01
          /\ gamma = Gamma03
    /\ horizon \in 0..MaxHorizon
    /\ level = <<0, 1>> /\ trend = <<0, 1>> /\ season = <<>>
    /\ t = 0 /\ h = 0 /\ fc = <<>>
    /\ result = NULL
    /\ ScanIdle /\ RankIdle /\ TopIdle /\ TimeIdle
    /\ MoreIdle

\* line 14 with the seasonal indices written back into series
HWEnter_inplace ==
    /\ job = "hw" /\ pc = "entry"
    /\ IF TooShort(series, seasonLen)
       THEN /\ pc' = "done"
            /\ result' = [forecast |-> Zeros(horizon)]
            /\ UNCHANGED <<level, trend, season, t>>
       ELSE /\ pc' = "smooth"
            /\ level' = HWStart(series, seasonLen).level
            /\ trend' = HWStart(series, seasonLen).trend
            /\ season' = HWStart(series, seasonLen).season
            /\ t' = 0
            /\ UNCHANGED result
    /\ series' = [i \in 1..Len(series) |->
                      IF ~TooShort(series, seasonLen) /\ i <= seasonLen
                      THEN series[i] - series[1] ELSE series[i]]
    /\ UNCHANGED <<job, seasonLen, alpha, beta, gamma, horizon, h, fc>>
    /\ UNCHANGED <<scanVars, rankVars, topVars>>
    /\ UNCHANGED timeVars
    /\ UNCHANGED moreVars

\* lines 11-15: the fallback, or the initial level, trend and season
HWEnter ==
    /\ job = "hw" /\ pc = "entry"
    /\ IF TooShort(series, seasonLen)
       THEN /\ pc' = "done"
            /\ result' = [forecast |-> Zeros(horizon)]
            /\ UNCHANGED <<level, trend, season, t>>
       ELSE /\ pc' = "smooth"
            /\ level' = HWStart(series, seasonLen).level
            /\ trend' = HWStart(series, seasonLen).trend
            /\ season' = HWStart(series, seasonLen).season
            /\ t' = 0
            /\ UNCHANGED result
    /\ UNCHANGED <<job, series, seasonLen, alpha, beta, gamma, horizon, h, fc>>
    /\ UNCHANGED <<scanVars, rankVars, topVars>>
    /\ UNCHANGED timeVars
    /\ UNCHANGED moreVars

\* lines 15-22: one iteration of the smoothing loop
HWSmooth ==
    /\ job = "hw" /\ pc = "smooth"
    /\ t < Len(series)
    /\ \E st \in {HWUpdate([level |-> level, trend |-> trend, season |-> season],
                           series, seasonLen, alpha, beta, gamma, t)} :
          /\ level' = st.level
          /\ trend' = st.trend
          /\ season' = st.season
    /\ t' = t + 1
    /\ UNCHANGED <<job, pc, result, series, seasonLen, alpha, beta, gamma, horizon, h, fc>>
    /\ UNCHANGED <<scanVars, rankVars, topVars>>
    /\ UNCHANGED timeVars
    /\ UNCHANGED moreVars

\* lines 23-25: the loop ends, fc and lastIdx are set up
HWSmoothEnd ==
    /\ job = "hw" /\ pc = "smooth"
    /\ t >= Len(series)
    /\ fc' = <<>>
    /\ h' = 1
    /\ pc' = "project"
    /\ UNCHANGED <<job, result, series, seasonLen, alpha, beta, gamma, horizon>>
    /\ UNCHANGED <<level, trend, season, t, scanVars, rankVars, topVars>>
    /\ UNCHANGED timeVars
    /\ UNCHANGED moreVars

\* lines 25-28: one iteration of the projection loop
HWPush ==
    /\ job = "hw" /\ pc = "project"
    /\ h <= horizon
    /\ fc' = Append(fc, HWProject([level |-> level, trend |-> trend, season |-> season],
                                  series, seasonLen, h))
    /\ h' = h + 1
    /\ UNCHANGED <<job, pc, result, series, seasonLen, alpha, beta, gamma, horizon>>
    /\ UNCHANGED <<level, trend, season, t, scanVars, rankVars, topVars>>
    /\ UNCHANGED timeVars
    /\ UNCHANGED moreVars

\* line 29
HWReturn ==
    /\ job = "hw" /\ pc = "project"
    /\ h > horizon
    /\ result' = [forecast |-> [k \in 1..Len(fc) |-> Clamp(fc[k])]]
    /\ pc' = "done"
    /\ UNCHANGED <<job, hwVars, horizon, scanVars, rankVars, topVars>>
    /\ UNCHANGED timeVars
    /\ UNCHANGED moreVars

NextHW == HWEnter \/ HWSmooth \/ HWSmoothEnd \/ HWPush \/ HWReturn

SpecHW == InitHW /\ [][NextHW]_vars

-----------------------------------------------------------------------------
(* scripts/forecast.js: forecastTop *)

\* the label `+${i+1}` of a forecast entry: the sign and the number after it
OffsetLabel(n) == <<"+", n>>

\* the forecast entries with the first week starting on the Date start
ForecastEntries_from0(preds, start) ==
    [i \in 1..Len(preds) |->
        LET weekStart == start + (i - 1) * 7
            weekEnd   == weekStart + 6
        IN  [week |-> OffsetLabel(i), start |-> ToISO(weekStart), end |-> ToISO(weekEnd),
             pred |-> preds[i]]]

\* lines 48-54: the forecast entries for the predictions preds, counted in
\* weeks after the Date start (i is 1-based here, 0-based in the code)
ForecastEntries(preds, start) ==
    [i \in 1..Len(preds) |->
        LET weekStart == start + 1 + (i - 1) * 7
            weekEnd   == weekStart + 6
        IN  [week |-> OffsetLabel(i), start |-> ToISO(weekStart), end |-> ToISO(weekEnd),
             pred |-> preds[i]]]

\* lines 39-55: the row written for repository repo with weekly records w
ForecastRow(repo, w, hz) ==
    LET preds == holtWintersAdditive([i \in 1..Len(w) |-> w[i].total],
                                     SeasonLen52, Alpha03, Beta01, Gamma03, hz).forecast
        last  == w[Len(w)]
    IN  [repo |-> repo,
         horizon_weeks |-> hz,
         last_week |-> last.week,
         forecast |-> ForecastEntries(preds, ParseISO(last.end))]

-----------------------------------------------------------------------------
(* Inputs of forecastTop *)

\* the weekly record aggregate_weekly.js writes for the ISO week of date
WeekRecord(date, total) ==
    [week |-> isoWeekKey(date), total |-> total,
     start |-> weeksToBounds(isoWeekKey(date)).start,
     end |-> weeksToBounds(isoWeekKey(date)).end]

\* n consecutive weeks from the week of 2024-12-02 on, with the totals tot
Weeks(n, tot) ==
    [i \in 1..n |-> WeekRecord(ToISO(ParseISO(<<2024, 12, 2>>) + 7 * (i - 1)), tot[i])]

WeeklyKinds == 1..4

\* an empty weekly series, two too short ones, a flat one of 54 weeks
KindWeekly(k) ==
    CASE k = 1 -> <<>>
      [] k = 2 -> Weeks(1, <<5>>)
      [] k = 3 -> Weeks(3, <<2, 0, 7>>)
      [] k = 4 -> Weeks(SeasonLen52 + 2, [i \in 1..(SeasonLen52 + 2) |-> 10])

Repos == 1..2

TopRows == UNION {[1..n -> [repo : Repos]] : n \in 0..MaxTop}

-----------------------------------------------------------------------------
(* forecastTop as a state machine *)

InitTop ==
    /\ job = "forecast"
    /\ pc = "read"
    /\ quarterFile \in {NoFile} \cup TopRows
    /\ top = <<>>
    /\ \E ks \in [Repos -> WeeklyKinds] :
          weeklyStore = [id \in Repos |-> [repo |-> id, weekly |-> KindWeekly(ks[id])]]
    /\ horizon \in {1, 12}
    /\ r = 0
    /\ forecastDir = [id \in Repos |-> NULL]
    /\ result = NULL
    /\ ScanIdle /\ RankIdle /\ HWIdle /\ TimeIdle
    /\ MoreIdle

\* line 35: the quarter file is read and parsed; readFileSync throws when
\* there is no such file
ForecastRead ==
    /\ job = "forecast" /\ pc = "read"
    /\ IF quarterFile = NoFile
       THEN /\ pc' = "enoent"
            /\ UNCHANGED <<top, r>>
       ELSE /\ top' = quarterFile
            /\ r' = 1
            /\ pc' = "loop"
    /\ UNCHANGED <<job, result, weeklyStore, forecastDir, quarterFile, horizon>>
    /\ UNCHANGED <<scanVars, rankVars, hwVars, timeVars>>
    /\ UNCHANGED moreVars

\* lines 36-57: one iteration of the loop over top; reading last.end of an
\* empty weekly array throws a TypeError out of forecastTop
ForecastRepo ==
    /\ job = "forecast" /\ pc = "loop"
    /\ r <= Len(top)
    /\ LET w == weeklyStore[top[r].repo].weekly
       IN  IF Len(w) = 0
           THEN /\ pc' = "threw"
                /\ UNCHANGED <<r, forecastDir>>
           ELSE /\ forecastDir' =
                      [forecastDir EXCEPT ![top[r].repo] = ForecastRow(top[r].repo, w, horizon)]
                /\ r' = r + 1
                /\ UNCHANGED pc
    /\ UNCHANGED <<job, result, top, weeklyStore, quarterFile, horizon>>
    /\ UNCHANGED <<scanVars, rankVars, hwVars, timeVars>>
    /\ UNCHANGED moreVars

\* line 58: the loop is over
ForecastEnd ==
    /\ job = "forecast" /\ pc = "loop"
    /\ r > Len(top)
    /\ pc' = "done"
    /\ UNCHANGED <<job, result, topVars, horizon, scanVars, rankVars, hwVars>>
    /\ UNCHANGED timeVars
    /\ UNCHANGED moreVars

NextTop == ForecastRead \/ ForecastRepo \/ ForecastEnd

SpecTop == InitTop /\ [][NextTop]_vars

-----------------------------------------------------------------------------
(* The pure functions of the core called on their inputs *)

InitCore == InitScan \/ InitHW

NextCore == NextScan \/ NextHW

SpecCore == InitCore /\ [][NextCore]_vars

-----------------------------------------------------------------------------
(* rank_ross_quarter.js and then forecast.js run for the same quarter key *)

\* files whose repository is filtered out, ranked, ranked with a larger gain
FlowKinds == {4, 7, 8}

FlowDirs(qStart) ==
    UNION {{[i \in 1..n |-> KindFile(qStart, ks[i], i)] : ks \in [1..n -> FlowKinds]} :
              n \in 0..MaxFiles}

\* the state before rankRossQuarter starts: data/derived/quarter may hold a
\* file for the quarter key, which rank_ross_quarter.js never writes
InitFlow ==
    /\ job = "rank"
    /\ pc = "entry"
    /\ \E a \in RankArgs : year = a[1] /\ q = a[2]
    /\ weeklyDir \in FlowDirs(quarterBounds(year, q).start)
    /\ f = 0
    /\ rows = <<>>
    /\ outFile = NULL
    /\ result = NULL
    /\ quarterFile \in {NoFile} \cup TopRows
    /\ top = <<>>
    /\ weeklyStore = [id \in Repos |-> [repo |-> id, weekly |-> KindWeekly(id + 1)]]
    /\ r = 0
    /\ forecastDir = [id \in Repos |-> NULL]
    /\ ScanIdle /\ HWIdle /\ horizon = 0 /\ TimeIdle
    /\ MoreIdle

\* forecast.js line 61, started once the ranker has written its file:
\* forecastTop(process.argv[2], 12)
FlowRunForecast ==
    /\ job = "rank" /\ pc = "done"
    /\ job' = "forecast"
    /\ pc' = "read"
    /\ horizon' = 12
    /\ UNCHANGED <<result, scanVars, rankVars, hwVars, topVars, timeVars>>
    /\ UNCHANGED moreVars

NextFlow == NextRank \/ FlowRunForecast \/ NextTop

SpecFlow == InitFlow /\ [][NextFlow]_vars

-----------------------------------------------------------------------------
(* scripts/utils/time.js as state machines *)

\* the Monday before 2019, a year that starts on a Tuesday; the dates reach
\* into 2027 and so meet years starting on every day of the week
FirstDate == <<2018, 12, 24>>

Dates == {ToISO(ParseISO(FirstDate) + k) : k \in 0..MaxDays}

\* a date is given to isoWeekKey and the key it returns to weeksToBounds,
\* as toWeekly does with the date of a daily record
InitTime ==
    /\ job = "time"
    /\ pc = "entry"
    /\ isoDate \in Dates
    /\ weekKey = NULL
    /\ bounds = NULL
    /\ result = NULL
    /\ ScanIdle /\ RankIdle /\ HWIdle /\ horizon = 0 /\ TopIdle
    /\ MoreIdle

\* isoWeekKey(isoDate)
TimeWeekKey ==
    /\ job = "time" /\ pc = "entry"
    /\ weekKey' = isoWeekKey(isoDate)
    /\ pc' = "keyed"
    /\ UNCHANGED <<job, result, isoDate, bounds>>
    /\ UNCHANGED <<scanVars, rankVars, hwVars, horizon, topVars>>
    /\ UNCHANGED moreVars

\* weeksToBounds(weekKey)
TimeBounds ==
    /\ job = "time" /\ pc = "keyed"
    /\ bounds' = weeksToBounds(weekKey)
    /\ pc' = "done"
    /\ UNCHANGED <<job, result, isoDate, weekKey>>
    /\ UNCHANGED <<scanVars, rankVars, hwVars, horizon, topVars>>
    /\ UNCHANGED moreVars

NextTime == TimeWeekKey \/ TimeBounds

SpecTime == InitTime /\ [][NextTime]_vars

FirstYear == 1999

InitQuarter ==
    /\ job = "quarter"
    /\ pc = "entry"
    /\ year \in FirstYear..(FirstYear + MaxYears)
    /\ q \in 1..4
    /\ weeklyDir = <<>> /\ f = 0 /\ rows = <<>> /\ outFile = NULL
    /\ result = NULL
    /\ ScanIdle /\ HWIdle /\ horizon = 0 /\ TopIdle /\ TimeIdle
    /\ MoreIdle

\* quarterBounds(year, q)
QuarterCall ==
    /\ job = "quarter" /\ pc = "entry"
    /\ result' = quarterBounds(year, q)
    /\ pc' = "done"
    /\ UNCHANGED <<job, scanVars, rankVars, hwVars, horizon, topVars, timeVars>>
    /\ UNCHANGED moreVars

NextQuarter == QuarterCall

SpecQuarter == InitQuarter /\ [][NextQuarter]_vars

-----------------------------------------------------------------------------
(* scripts/aggregate_weekly.js *)
(* A star timestamp "YYYY-MM-DDTHH:MM:SSZ" is the tuple <<year, month, day,  *)
(* second of the day>>.  A Map is the sequence of its entries in insertion  *)
(* order.                                                                   *)

\* a < b on two strings of one format, given by their fields in order
LexLess(a, b) ==
    \E i \in 1..Len(a) : a[i] < b[i] /\ \A j \in 1..(i - 1) : a[j] = b[j]

\* Array.prototype.sort() on a list of timestamps: a string goes behind the
\* strings below it and the equal strings listed before it
SortStrings(list) ==
    LET pos == [i \in 1..Len(list) |->
                  1 + Cardinality({j \in 1..Len(list) :
                          \/ LexLess(list[j], list[i])
                          \/ list[j] = list[i] /\ j < i})] \o <<>>
    IN  [k \in 1..Len(list) |-> list[CHOOSE i \in 1..Len(list) : pos[i] = k]]

\* iso.slice(0,10)
Slice10(iso) == SubSeq(iso, 1, 3)

\* m.set(k, (m.get(k)||0) + n)
MapAdd(m, k, n) ==
    IF \E i \in 1..Len(m) : m[i].key = k
    THEN [i \in 1..Len(m) |->
            IF m[i].key = k THEN [key |-> k, count |-> m[i].count + n] ELSE m[i]]
    ELSE Append(m, [key |-> k, count |-> n])

\* [...m.entries()].sort(([a],[b]) => a.localeCompare(b)), the keys of a Map
\* being distinct; str[k] is the string of the key of entry k
SortEntries(m, str) ==
    [i \in 1..Len(m) |->
        m[CHOOSE e \in 1..Len(m) :
            Cardinality({k \in 1..Len(m) : LexLess(str[k], str[e])}) = i - 1]]

\* the string of the week key `${year}-W${ww}`, the year having four digits
KeyChars(key) == <<key.year>> \o key.ww

WeekLess(a, b) == LexLess(KeyChars(a), KeyChars(b))

RECURSIVE DailyMap(_, _, _)
\* the for..of loop of toDaily from timestamp i on
DailyMap(list, i, m) ==
    IF i > Len(list) THEN m
    ELSE DailyMap(list, i + 1, MapAdd(m, Slice10(list[i]), 1))

\* toDaily without the sort of line 17: the entries in insertion order
toDaily_unsorted(list) ==
    LET m == DailyMap(list, 1, <<>>)
    IN  [i \in 1..Len(m) |-> [date |-> m[i].key, daily |-> m[i].count]]

toDaily(list) ==
    LET u == DailyMap(list, 1, <<>>)
        m == SortEntries(u, [k \in 1..Len(u) |-> u[k].key])
    IN  [i \in 1..Len(m) |-> [date |-> m[i].key, daily |-> m[i].count]]

RECURSIVE WeeklyMap_days(_, _, _)
\* the loop of toWeekly counting the days of a week, not their stars
WeeklyMap_days(days, i, m) ==
    IF i > Len(days) THEN m
    ELSE WeeklyMap_days(days, i + 1, MapAdd(m, isoWeekKey(days[i].date), 1))

RECURSIVE WeeklyMap(_, _, _)
\* the for..of loop of toWeekly from daily record i on
WeeklyMap(days, i, m) ==
    IF i > Len(days) THEN m
    ELSE WeeklyMap(days, i + 1, MapAdd(m, isoWeekKey(days[i].date), days[i].daily))

toWeekly_days(days) ==
    LET u == WeeklyMap_days(days, 1, <<>>)
        m == SortEntries(u, [k \in 1..Len(u) |-> KeyChars(u[k].key)])
    IN  [i \in 1..Len(m) |->
            [week |-> m[i].key, total |-> m[i].count,
             start |-> weeksToBounds(m[i].key).start,
             end |-> weeksToBounds(m[i].key).end]]

toWeekly(days) ==
    LET u == WeeklyMap(days, 1, <<>>)
        m == SortEntries(u, [k \in 1..Len(u) |-> KeyChars(u[k].key)])
    IN  [i \in 1..Len(m) |->
            [week |-> m[i].key, total |-> m[i].count,
             start |-> weeksToBounds(m[i].key).start,
             end |-> weeksToBounds(m[i].key).end]]

RECURSIVE CumFrom(_, _, _)
\* daily.map(r => ({date: r.date, value: (cum += r.daily)})) from record i
\* on, cum being the running total
CumFrom(days, i, cum) ==
    IF i > Len(days) THEN <<>>
    ELSE <<[date |-> days[i].date, value |-> cum + days[i].daily]>>
         \o CumFrom(days, i + 1, cum + days[i].daily)

toCumulative(days) == CumFrom(days, 1, 0)

\* the timestamps of short lists: the last Sunday of 2024, the Monday and
\* the Wednesday of the first ISO week of 2025, the Monday after
StarDays == {<<2024, 12, 29>>, <<2024, 12, 30>>, <<2025, 1, 1>>, <<2025, 1, 6>>}

StarTimes == {0, 1}

Stamps == {d \o <<s>> : d \in StarDays, s \in StarTimes}

BoundaryYears == 2019..2027

\* the eight days around every turn of a year
BoundaryDays ==
    {ToISO(ParseISO(<<y, 1, 1>>) + k) : y \in BoundaryYears, k \in (-4)..3}

\* the files of data/raw/stars: any list of up to MaxStars timestamps, in any
\* order, and any two days around the turn of a year
RawStars ==
    UNION {[1..n -> Stamps] : n \in 0..MaxStars}
    \cup {<<a \o <<0>>, b \o <<0>>>> : a \in BoundaryDays, b \in BoundaryDays}

\* the loop body of lines 34-54 for one file of data/raw/stars
InitAgg ==
    /\ job = "aggregate"
    /\ pc = "entry"
    /\ ts \in RawStars
    /\ daily = <<>>
    /\ payload = NULL
    /\ result = NULL
    /\ ScanIdle /\ RankIdle /\ HWIdle /\ horizon = 0 /\ TopIdle /\ TimeIdle
    /\ FetchIdle /\ ReqIdle

\* line 37
AggRead ==
    /\ job = "aggregate" /\ pc = "entry"
    /\ ts' = SortStrings(ts)
    /\ pc' = "sorted"
    /\ UNCHANGED <<job, result, daily, payload>>
    /\ UNCHANGED <<scanVars, rankVars, hwVars, horizon, topVars, timeVars>>
    /\ UNCHANGED <<fetchVars, reqVars>>

\* line 38
AggDaily ==
    /\ job = "aggregate" /\ pc = "sorted"
    /\ daily' = toDaily(ts)
    /\ pc' = "daily"
    /\ UNCHANGED <<job, result, ts, payload>>
    /\ UNCHANGED <<scanVars, rankVars, hwVars, horizon, topVars, timeVars>>
    /\ UNCHANGED <<fetchVars, reqVars>>

\* lines 39-52
AggWrite ==
    /\ job = "aggregate" /\ pc = "daily"
    /\ payload' = [weekly |-> toWeekly(daily), cumulative |-> toCumulative(daily)]
    /\ pc' = "done"
    /\ UNCHANGED <<job, result, ts, daily>>
    /\ UNCHANGED <<scanVars, rankVars, hwVars, horizon, topVars, timeVars>>
    /\ UNCHANGED <<fetchVars, reqVars>>

NextAgg == AggRead \/ AggDaily \/ AggWrite

SpecAgg == InitAgg /\ [][NextAgg]_vars

-----------------------------------------------------------------------------
(* scripts/fetch_stars.js, for one candidate repository *)
(* The stargazers of the repository are listed oldest first; a response is  *)
(* a page of the list, a 403 (rate limit) or, when the repository is not    *)
(* found, a 404.  An item is its starred_at, NULL when it has none.         *)

PerPage == 100

\* page p of the list
PageOf(list, p) ==
    SubSeq(list, (p - 1) * PerPage + 1,
           IF p * PerPage < Len(list) THEN p * PerPage ELSE Len(list))

HasStamp(it) == it # NULL

\* knownNewest && ts <= knownNewest
Overlaps(known, it) == known # NULL /\ ~LexLess(known, it)

\* the for..of loop of lines 64-69 over the items of a page: the timestamps
\* pushed and whether the loop ended on an overlap
ReadItems(items, known) ==
    LET ov   == {i \in 1..Len(items) : HasStamp(items[i]) /\ Overlaps(known, items[i])}
        stop == IF ov = {} THEN Len(items) + 1
                ELSE CHOOSE i \in ov : \A j \in ov : i <= j
    IN  [pushed |-> SelectSeq(SubSeq(items, 1, stop - 1), HasStamp),
         overlap |-> ov # {}]

\* the n-th timestamp, fifty a day from 2025-01-01 on
Stamp(n) == <<2025, 1, 1 + n \div 50, n % 50>>

StampsTo(n) == [i \in 1..n |-> Stamp(i)]

\* lengths of the stargazer list: short ones, a full page, a page and one
\* item, two full pages
ApiSizes == {0, 1, 2, 3, PerPage, PerPage + 1, 2 * PerPage}

\* lengths of a stored list, as an earlier run over a shorter stargazer list
\* wrote it
StoreSizes == {0, 1, 2, PerPage}

ApiLists ==
    {StampsTo(n) : n \in ApiSizes} \cup {<<Stamp(1), NULL, Stamp(3)>>}

InitFetch ==
    /\ job = "fetch"
    /\ pc = "idle"
    /\ \/ api = [found |-> FALSE, stars |-> <<>>]
       \/ \E l \in ApiLists : api = [found |-> TRUE, stars |-> l]
    /\ \/ rawFile = [exists |-> FALSE, stars |-> <<>>]
       \/ \E k \in StoreSizes :
             /\ k <= Len(api.stars)
             /\ rawFile = [exists |-> TRUE, stars |-> StampsTo(k)]
    /\ ghToken \in BOOLEAN
    /\ existing = <<>> /\ knownNewest = NULL /\ acc = <<>>
    /\ page = 0 /\ limited = 0 /\ runs = 0
    /\ result = NULL
    /\ ScanIdle /\ RankIdle /\ HWIdle /\ horizon = 0 /\ TopIdle /\ TimeIdle
    /\ AggIdle /\ ReqIdle

\* lines 79-85 and 45-54: the stored list is read and the fetch starts, or
\* throws for want of a token, which line 93 catches
FetchBegin ==
    /\ job = "fetch" /\ pc = "idle"
    /\ existing' = IF rawFile.exists THEN rawFile.stars ELSE <<>>
    /\ knownNewest' = IF Len(existing') > 0 THEN existing'[Len(existing')] ELSE NULL
    /\ limited' = 0
    /\ IF ghToken
       THEN /\ acc' = <<>>
            /\ page' = 1
            /\ pc' = "page"
            /\ UNCHANGED runs
       ELSE /\ pc' = "caught"
            /\ runs' = runs + 1
            /\ UNCHANGED <<acc, page>>
    /\ UNCHANGED <<job, result, rawFile, api, ghToken>>
    /\ UNCHANGED <<scanVars, rankVars, hwVars, horizon, topVars, timeVars, aggVars, reqVars>>

\* line 59: a 403 response, the same page is asked for again
FetchLimited ==
    /\ job = "fetch" /\ pc = "page"
    /\ limited < MaxLimited
    /\ limited' = limited + 1
    /\ UNCHANGED <<job, pc, result, rawFile, api, ghToken, existing, knownNewest, acc, page, runs>>
    /\ UNCHANGED <<scanVars, rankVars, hwVars, horizon, topVars, timeVars, aggVars, reqVars>>

\* line 58: a 404 response
FetchMissing ==
    /\ job = "fetch" /\ pc = "page"
    /\ ~api.found
    /\ pc' = "fetched"
    /\ UNCHANGED <<job, result, rawFile, api, ghToken, existing, knownNewest, acc, page, limited, runs>>
    /\ UNCHANGED <<scanVars, rankVars, hwVars, horizon, topVars, timeVars, aggVars, reqVars>>

\* lines 60-71: a page of items
FetchItems ==
    /\ job = "fetch" /\ pc = "page"
    /\ api.found
    /\ LET items == PageOf(api.stars, page)
           rd    == ReadItems(items, knownNewest)
       IN  IF Len(items) = 0
           THEN /\ pc' = "fetched"
                /\ UNCHANGED <<acc, page>>
           ELSE /\ acc' = acc \o rd.pushed
                /\ IF rd.overlap \/ Len(items) < PerPage
                   THEN pc' = "fetched" /\ UNCHANGED page
                   ELSE page' = page + 1 /\ UNCHANGED pc
    /\ UNCHANGED <<job, result, rawFile, api, ghToken, existing, knownNewest, limited, runs>>
    /\ UNCHANGED <<scanVars, rankVars, hwVars, horizon, topVars, timeVars, aggVars, reqVars>>

\* lines 73 and 85-92: the timestamps fetched are sorted and, when there is
\* one, the merged list is sorted and written
FetchWrite ==
    /\ job = "fetch" /\ pc = "fetched"
    /\ LET newest == SortStrings(acc)
       IN  IF Len(newest) > 0
           THEN rawFile' = [exists |-> TRUE, stars |-> SortStrings(existing \o newest)]
           ELSE UNCHANGED rawFile
    /\ pc' = "done"
    /\ runs' = runs + 1
    /\ UNCHANGED <<job, result, api, ghToken, existing, knownNewest, acc, page, limited>>
    /\ UNCHANGED <<scanVars, rankVars, hwVars, horizon, topVars, timeVars, aggVars, reqVars>>

\* between two runs of the script the repository gains up to two stars
StarsArrive ==
    /\ job = "fetch" /\ pc \in {"done", "caught"}
    /\ runs < MaxRuns
    /\ \E g \in 0..2 :
          api' = IF api.found
                 THEN [api EXCEPT !.stars =
                          api.stars \o [i \in 1..g |-> Stamp(Len(api.stars) + i)]]
                 ELSE api
    /\ pc' = "idle"
    /\ UNCHANGED <<job, result, rawFile, ghToken, existing, knownNewest, acc, page, limited, runs>>
    /\ UNCHANGED <<scanVars, rankVars, hwVars, horizon, topVars, timeVars, aggVars, reqVars>>

NextFetch ==
    FetchBegin \/ FetchLimited \/ FetchMissing \/ FetchItems \/ FetchWrite \/ StarsArrive

SpecFetch == InitFetch /\ [][NextFetch]_vars

-----------------------------------------------------------------------------
(* scripts/enrich_contributor_locations.js: githubRequest *)
(* A response is its status, its retry-after and x-ratelimit-reset headers  *)
(* as numbers (0 when absent) and the clock, in ms, when it is handled.     *)

Response(st, ra, rs, clock) == [status |-> st, retryAfter |-> ra, reset |-> rs, now |-> clock]

\* the responses fetch may return: success, not found, a secondary and a
\* primary rate limit (before and after the reset time), a 403 without
\* headers, two server errors
Responses ==
    {Response(200, 0, 0, 0), Response(404, 0, 0, 0), Response(403, 3, 0, 0),
     Response(403, 0, 10, 4000), Response(403, 0, 10, 20000), Response(403, 0, 0, 0),
     Response(500, 0, 0, 0), Response(503, 0, 0, 0)}

\* lines 73-76
msUntil(resetEpochSec, clock) ==
    (IF resetEpochSec * 1000 - clock > 0 THEN resetEpochSec * 1000 - clock ELSE 0) + 2000

\* line 91
SecondaryLimit(res) == res.status = 403 /\ res.retryAfter # 0

\* line 98
PrimaryLimit(res) == res.status = 403 /\ res.reset # 0

\* a server error retried whatever the attempt
ServerErrorRetry_always(res, att) == res.status >= 500

\* line 105
ServerErrorRetry(res, att) == res.status >= 500 /\ att <= 6

\* line 106
Backoff(att) == IF 1000 * 2^att < 120000 THEN 1000 * 2^att ELSE 120000

\* res.ok
Ok(res) == res.status >= 200 /\ res.status <= 299

\* the value returned, but for the body and the headers
Returned(res) == [ok |-> Ok(res), status |-> res.status]

\* githubRequest(url, GH_TOKEN): attempt takes its default
InitReq ==
    /\ job = "request"
    /\ pc = "call"
    /\ attempt = 1
    /\ responses = <<>>
    /\ sleeps = <<>>
    /\ result = NULL
    /\ ScanIdle /\ RankIdle /\ HWIdle /\ horizon = 0 /\ TopIdle /\ TimeIdle
    /\ AggIdle /\ FetchIdle

\* lines 85-96: a 403 with Retry-After
ReqSecondaryLimit ==
    /\ job = "request" /\ pc = "call" /\ Len(responses) < MaxSends
    /\ \E res \in Responses :
          /\ SecondaryLimit(res)
          /\ responses' = Append(responses, res)
          /\ sleeps' = Append(sleeps, res.retryAfter * 1000 + 1000)
    /\ attempt' = attempt + 1
    /\ UNCHANGED <<job, pc, result>>
    /\ UNCHANGED <<scanVars, rankVars, hwVars, horizon, topVars, timeVars, aggVars, fetchVars>>

\* lines 85-103: a 403 with X-RateLimit-Reset and no Retry-After
ReqPrimaryLimit ==
    /\ job = "request" /\ pc = "call" /\ Len(responses) < MaxSends
    /\ \E res \in Responses :
          /\ ~SecondaryLimit(res) /\ PrimaryLimit(res)
          /\ responses' = Append(responses, res)
          /\ sleeps' = Append(sleeps, msUntil(res.reset, res.now))
    /\ attempt' = attempt + 1
    /\ UNCHANGED <<job, pc, result>>
    /\ UNCHANGED <<scanVars, rankVars, hwVars, horizon, topVars, timeVars, aggVars, fetchVars>>

\* lines 85-110: a server error within the attempts
ReqServerError ==
    /\ job = "request" /\ pc = "call" /\ Len(responses) < MaxSends
    /\ \E res \in Responses :
          /\ ~SecondaryLimit(res) /\ ~PrimaryLimit(res)
          /\ ServerErrorRetry(res, attempt)
          /\ responses' = Append(responses, res)
    /\ sleeps' = Append(sleeps, Backoff(attempt))
    /\ attempt' = attempt + 1
    /\ UNCHANGED <<job, pc, result>>
    /\ UNCHANGED <<scanVars, rankVars, hwVars, horizon, topVars, timeVars, aggVars, fetchVars>>

\* lines 85-116: any other response that is not ok
ReqFail ==
    /\ job = "request" /\ pc = "call" /\ Len(responses) < MaxSends
    /\ \E res \in Responses :
          /\ ~SecondaryLimit(res) /\ ~PrimaryLimit(res)
          /\ ~ServerErrorRetry(res, attempt)
          /\ ~Ok(res)
          /\ responses' = Append(responses, res)
          /\ result' = Returned(res)
    /\ pc' = "done"
    /\ UNCHANGED <<job, attempt, sleeps>>
    /\ UNCHANGED <<scanVars, rankVars, hwVars, horizon, topVars, timeVars, aggVars, fetchVars>>

\* lines 85-121: a response that is ok
ReqOk ==
    /\ job = "request" /\ pc = "call" /\ Len(responses) < MaxSends
    /\ \E res \in Responses :
          /\ ~SecondaryLimit(res) /\ ~PrimaryLimit(res)
          /\ ~ServerErrorRetry(res, attempt)
          /\ Ok(res)
          /\ responses' = Append(responses, res)
          /\ result' = Returned(res)
    /\ sleeps' = Append(sleeps, 150)
    /\ pc' = "done"
    /\ UNCHANGED <<job, attempt>>
    /\ UNCHANGED <<scanVars, rankVars, hwVars, horizon, topVars, timeVars, aggVars, fetchVars>>

NextReq == ReqSecondaryLimit \/ ReqPrimaryLimit \/ ReqServerError \/ ReqFail \/ ReqOk

SpecReq == InitReq /\ [][NextReq]_vars

-----------------------------------------------------------------------------
(* Properties of the scanner *)

\* the value of the last entry of series dated on or before D, 0 if none
LastAtOrBefore(cum, D) ==
    LET idx == {i \in 1..Len(cum) : DateLeq(cum[i].date, D)}
    IN  IF idx = {} THEN 0
        ELSE cum[CHOOSE i \in idx : \A j \in idx : j <= i].value

ScanRan == job = "scan" /\ probe.endISO # NULL

ScanDone == job = "scan" /\ pc = "done"

\* the window ends of the quarter, as day numbers
WindowEnds == ParseISO(quarterStart)..ParseISO(quarterEnd)

EligibleEnds ==
    IF IsNonEmptyArray(cumulative)
    THEN {e \in WindowEnds : Window(cumulative, e).startVal >= MinStartStars}
    ELSE {}

RelOf(w) == <<w.gain, w.startVal>>

\* no eligible window has a relative gain above rel
IsMaxRel(rel) ==
    \A e \in EligibleEnds : ~RelGT(RelOf(Window(cumulative, e)), rel)

\* res carries the relative gain and the diagnostics of the window ending at e
IsWindowResult(res, e) ==
    LET w == Window(cumulative, e)
    IN  /\ res.start = w.startISO /\ res.end = w.endISO
        /\ res.start_val = w.startVal /\ res.end_val = w.endVal
        /\ res.abs_gain = w.gain
        /\ res.rel_gain[1] * w.startVal = w.gain * res.rel_gain[2]

\* C1: on a series sorted ascending by date (the empty one included), cumAt
\* returns the value of the last entry dated on or before the queried date,
\* and 0 when there is none; checked on both lookups of every loop iteration.
C1_CumAtLastAtOrBefore ==
    ScanRan =>
        /\ probe.startVal = LastAtOrBefore(cumulative, probe.startISO)
        /\ probe.endVal = LastAtOrBefore(cumulative, probe.endISO)

\* a lookup that hits an entry's date exactly, with a later entry after it,
\* and in the same iteration a lookup before the first entry
C1_Witness ==
    /\ ScanRan
    /\ Len(cumulative) = 2
    /\ cumulative[1].date = probe.endISO
    /\ probe.endVal = cumulative[1].value
    /\ probe.startVal = 0

\* C2: the best window never has a start value below 1000, whatever its
\* absolute gain; a window with start value exactly 1000 and a positive gain
\* is eligible, so that the scan then returns a window at least as good.
C2_EligibilityFloor ==
    /\ (job = "scan" /\ best.start # NULL) =>
          /\ best.start_val >= MinStartStars
          /\ best.start = addDays(best.end, 0 - WindowBack)
          /\ best.start_val = cumAt(cumulative, best.start)
    /\ ScanDone =>
          \A e \in EligibleEnds :
              LET w == Window(cumulative, e)
              IN  (w.startVal = MinStartStars /\ w.gain > 0) =>
                      /\ result.start # NULL
                      /\ ~RelGT(RelOf(w), result.rel_gain)

\* the scan returns a window starting at exactly 1000 stars although a
\* window starting at 999 stars has a larger absolute gain
C2_Witness ==
    /\ ScanDone
    /\ result.start_val = MinStartStars
    /\ result.abs_gain > 0
    /\ \E e \in WindowEnds :
          LET w == Window(cumulative, e)
          IN  w.startVal = MinStartStars - 1 /\ w.gain > result.abs_gain

\* C3 as stated: whenever the quarter has an eligible window, the scan
\* returns the maximal relative gain with the diagnostics of a window that
\* attains it.
C3_Original ==
    (ScanDone /\ EligibleEnds # {}) =>
        /\ IsMaxRel(result.rel_gain)
        /\ \E e \in EligibleEnds : IsWindowResult(result, e)

\* C3 amended: when the maximal relative gain of the eligible windows is
\* positive the scan returns it with the diagnostics of a window attaining
\* it; when no eligible window has a positive gain it returns the sentinel.
C3_MaxPositiveRelGain ==
    ScanDone =>
        IF \E e \in EligibleEnds : Window(cumulative, e).gain > 0
        THEN /\ IsMaxRel(result.rel_gain)
             /\ \E e \in EligibleEnds : IsWindowResult(result, e)
        ELSE result = Sentinel

\* the returned window is followed by an eligible window of larger absolute
\* gain and smaller relative gain
C3_Witness ==
    /\ ScanDone
    /\ result.start # NULL
    /\ \E e \in EligibleEnds :
          /\ e > ParseISO(result.end)
          /\ Window(cumulative, e).gain > result.abs_gain
          /\ RelGT(result.rel_gain, RelOf(Window(cumulative, e)))

\* C4: an empty (or missing) series, or a quarter without a window whose
\* start value reaches 1000, gives the sentinel.
C4_SentinelWhenNoEligibleWindow ==
    (ScanDone /\ EligibleEnds = {}) => result = Sentinel

\* a non-empty series whose every window starts below 1000 stars although
\* one of them gains stars
C4_Witness ==
    /\ ScanDone
    /\ IsNonEmptyArray(cumulative)
    /\ EligibleEnds = {}
    /\ \E e \in WindowEnds : Window(cumulative, e).gain > 0
    /\ result = Sentinel

\* the end-to-end scenario of C5
C5_Scenario ==
    /\ job = "scan"
    /\ quarterStart = <<2025, 1, 1>> /\ quarterEnd = <<2025, 3, 31>>
    /\ cumulative = <<[date |-> <<2025, 1, 1>>, value |-> 1000],
                      [date |-> <<2025, 4, 1>>, value |-> 2000]>>

\* C5 as stated: in the scenario the scan returns the window 2025-01-01 ..
\* 2025-03-31 with start value 1000.
C5_Original ==
    (C5_Scenario /\ pc = "done") =>
        /\ result.start = <<2025, 1, 1>>
        /\ result.end = <<2025, 3, 31>>
        /\ result.start_val = 1000

\* C5 amended: in the scenario the window ending 2025-03-31 starts on
\* 2025-01-01 with start value 1000 and is the only eligible one, its gain is
\* 0 (the 2000 entry is dated after the quarter), and the scan returns the
\* sentinel.
C5_ScenarioGivesSentinel ==
    (C5_Scenario /\ pc = "done") =>
        /\ Window(cumulative, ParseISO(<<2025, 3, 31>>)) =
              [endISO |-> <<2025, 3, 31>>, startISO |-> <<2025, 1, 1>>,
               startVal |-> 1000, endVal |-> 1000, gain |-> 0]
        /\ EligibleEnds = {ParseISO(<<2025, 3, 31>>)}
        /\ result = Sentinel

C5_Witness == C5_Scenario /\ pc = "done" /\ probe.endISO = <<2025, 3, 31>>

-----------------------------------------------------------------------------
(* Properties of the ranker *)

RankDone == job = "rank" /\ pc = "done"

\* the scanner's result for file i of the directory in the requested quarter
FileBest(i) ==
    maxRossWindowForQuarter(weeklyDir[i].cumulative,
                            quarterBounds(year, q).start, quarterBounds(year, q).end)

\* the .json files whose scanner result has a window start and a positive
\* relative gain
Passing ==
    {i \in 1..Len(weeklyDir) :
        /\ weeklyDir[i].json
        /\ \A b \in {FileBest(i)} : b.start # NULL /\ b.rel_gain[1] > 0}

OutRepos == {outFile[k].row.repo : k \in 1..Len(outFile)}

\* the relative gain (end_value - start_value) / start_value of a row's window
RowRel(row) ==
    <<row.window_end_stars - row.window_start_stars, row.window_start_stars>>

\* C6: a repository whose scanner result has no window start or has
\* rel_gain <= 0 is in no row of the written output, wherever its file
\* stands in the enumeration of the directory.
C6_FilteredNeverInOutput ==
    RankDone =>
        \A P \in {Passing}, O \in {OutRepos} :
            \A i \in 1..Len(weeklyDir) :
                (i \notin P) => weeklyDir[i].repo \notin O

\* a directory whose first .json file is filtered out and whose second file
\* is ranked
C6_Witness ==
    /\ RankDone
    /\ Len(weeklyDir) >= 2
    /\ weeklyDir[1].json /\ 1 \notin Passing
    /\ weeklyDir[2].repo \in OutRepos

\* C7: with E repositories passing the filter the output has exactly
\* min(100, E) rows, the row at position i has rank i, and the row of rank 1
\* carries, at the six decimals every row is written with, the maximal
\* rel_gain of the passing repositories.
C7_TruncationAndRanks ==
    RankDone =>
        \A P \in {Passing} :
            /\ Len(outFile) = (IF Cardinality(P) < 100 THEN Cardinality(P) ELSE 100)
            /\ \A k \in 1..Len(outFile) : outFile[k].rank = k
            /\ \A rels \in {{FileBest(i).rel_gain : i \in P}} :
                  \A m \in rels :
                      (\A x \in rels : ~RelGT(x, m)) =>
                          outFile[1].row.rel_gain_90d = toFixed6(m)

\* more than 100 repositories pass the filter and 100 rows are written
C7_Witness ==
    /\ RankDone
    /\ Len(outFile) = 100
    /\ outFile[100].rank = 100
    /\ Cardinality(Passing) > 100

\* C8 as stated: the rows are in descending order of the relative gain
\* (end_value - start_value) / start_value of their windows, and no passing
\* repository left out of the output has a larger relative gain than a row
\* kept.
C8_Original ==
    RankDone =>
        /\ \A i, j \in 1..Len(outFile) :
              i < j => ~RelGT(RowRel(outFile[j].row), RowRel(outFile[i].row))
        /\ \A P \in {Passing}, O \in {OutRepos} :
              \A i \in P :
                  weeklyDir[i].repo \notin O =>
                      \A b \in {FileBest(i)} :
                          \A k \in 1..Len(outFile) :
                              ~RelGT(b.rel_gain, RowRel(outFile[k].row))

-----------------------------------------------------------------------------
(* Properties of the forecaster *)

HWDone == job = "hw" /\ pc = "done"

\* C9: for a series shorter than seasonLen + 2, the empty one included, and
\* every horizon, holtWintersAdditive returns exactly horizon zeros.
C9_ShortSeriesZeros ==
    (HWDone /\ Len(series) < seasonLen + 2) =>
        /\ Len(result.forecast) = horizon
        /\ \A k \in 1..horizon : result.forecast[k] = 0

\* a series of positive totals one value short of seasonLen + 2
C9_Witness ==
    /\ HWDone
    /\ Len(series) = seasonLen + 1
    /\ \A i \in 1..Len(series) : series[i] = 5
    /\ horizon = MaxHorizon
    /\ result.forecast = Zeros(horizon)

\* the weekly series of repository id is too short for a season profile
ShortWeekly(id) == Len(weeklyStore[id].weekly) < SeasonLen52 + 2

\* C10 as stated: forecasting a repository whose weekly series is empty or
\* too short raises no exception, and the row written for it holds
\* horizon zeros.
C10_Original ==
    job = "forecast" =>
        /\ pc # "threw"
        /\ \A i \in 1..(r - 1) :
              ShortWeekly(top[i].repo) =>
                  /\ forecastDir[top[i].repo] # NULL
                  /\ Len(forecastDir[top[i].repo].forecast) = horizon
                  /\ \A k \in 1..horizon : forecastDir[top[i].repo].forecast[k].pred = 0

\* the series is constant and long enough for a season profile
IsFlat == Len(series) >= seasonLen + 2 /\ \A i \in 1..Len(series) : series[i] = series[1]

C12_ForecastNonNegativeIntegers ==
    HWDone =>
        /\ Len(result.forecast) = horizon
        /\ \A k \in 1..horizon : result.forecast[k] \in Nat

\* a run whose projections include a negative one and a fractional one
C12_Witness ==
    /\ HWDone
    /\ Len(fc) = horizon
    /\ \E k \in 1..horizon : fc[k][1] < 0 /\ result.forecast[k] = 0
    /\ \E k \in 1..horizon : fc[k][2] # 1 /\ fc[k][1] > 0

-----------------------------------------------------------------------------
(* Properties of the time utilities *)

TimeDone == job = "time" /\ pc = "done"

\* the Monday of the Monday-to-Sunday week of the day number z (day 0,
\* 1970-01-01, is a Thursday)
MondayOf(z) == z - ((z + 3) % 7)

\* C13 as stated: for every date d, weeksToBounds(isoWeekKey(d)) is a window
\* of 7 days, end = start + 6 days, that starts on a Monday and contains d.
C13_Original ==
    TimeDone =>
        /\ ParseISO(bounds.end) = ParseISO(bounds.start) + 6
        /\ ParseISO(bounds.start) = MondayOf(ParseISO(bounds.start))
        /\ DateLeq(bounds.start, isoDate)
        /\ DateLeq(isoDate, bounds.end)

\* the ISO-8601 week of the day number z: the year of the Thursday of its
\* Monday-to-Sunday week, and the number of that week counted from the week
\* that holds January 4 of this year
ISOWeekYear(z) == ToISO(MondayOf(z) + 3)[1]

ISOWeekNumber(z) ==
    (MondayOf(z) - MondayOf(ParseISO(<<ISOWeekYear(z), 1, 4>>))) \div 7 + 1

\* C14: the key isoWeekKey returns for a date carries the ISO-8601 week of
\* the date: the year of the Thursday of its week and the week number, in
\* 1..53, counted from the week holding January 4; the week is written with
\* two decimal digits, zero-padded; the seven days of the date's
\* Monday-to-Sunday week get this same key; 2024-12-30 gets 2025-W01,
\* 2021-01-01 gets 2020-W53 and 2023-01-01 gets 2022-W52.
C14_IsoWeekNumbering ==
    (job = "time" /\ pc # "entry") =>
        LET z == ParseISO(isoDate)
        IN  /\ weekKey.year = ISOWeekYear(z)
            /\ Len(weekKey.ww) = 2
            /\ weekKey.ww[1] \in 0..9 /\ weekKey.ww[2] \in 0..9
            /\ 10 * weekKey.ww[1] + weekKey.ww[2] = ISOWeekNumber(z)
            /\ ISOWeekNumber(z) \in 1..53
            /\ \A j \in 0..6 : isoWeekKey(ToISO(MondayOf(z) + j)) = weekKey
            /\ isoDate = <<2024, 12, 30>> => weekKey = WeekKey(2025, <<0, 1>>)
            /\ isoDate = <<2021, 1, 1>> => weekKey = WeekKey(2020, <<5, 3>>)
            /\ isoDate = <<2023, 1, 1>> => weekKey = WeekKey(2022, <<5, 2>>)

\* a day of the last days of December that belongs to week 01 of the next year
C14_Witness ==
    /\ job = "time" /\ pc = "keyed"
    /\ isoDate = <<2024, 12, 30>>
    /\ weekKey = WeekKey(2025, <<0, 1>>)

QuarterDone == job = "quarter" /\ pc = "done"

\* the days of the year yr, as day numbers
DaysOfYear(yr) == ParseISO(<<yr, 1, 1>>)..ParseISO(<<yr, 12, 31>>)

\* the ISO date iso lies in the range b, by the string comparison of dates
InBounds(iso, b) == DateLeq(b.start, iso) /\ DateLeq(iso, b.end)

\* C15: quarterBounds returns Jan 1-Mar 31, Apr 1-Jun 30, Jul 1-Sep 30 and
\* Oct 1-Dec 31 of the year for quarters 1 to 4; in every year, leap or not,
\* the first quarter starts on January 1, each later quarter starts the day
\* after the previous one ends, the fourth ends on December 31, and every
\* day of the year lies in exactly one quarter.
C15_QuarterPartition ==
    QuarterDone =>
        /\ result.start = <<year, 3 * q - 2, 1>>
        /\ result.end = <<year, 3 * q, IF q \in {1, 4} THEN 31 ELSE 30>>
        /\ result = quarterBounds(year, q)
        /\ q = 1 => result.start = <<year, 1, 1>>
        /\ q = 4 => result.end = <<year, 12, 31>>
        /\ q > 1 => ParseISO(result.start) = ParseISO(quarterBounds(year, q - 1).end) + 1
        /\ ToISO(ParseISO(result.start)) = result.start
        /\ ToISO(ParseISO(result.end)) = result.end
        /\ \A z \in DaysOfYear(year) :
              InBounds(ToISO(z), result) =>
                  \A k \in 1..4 : InBounds(ToISO(z), quarterBounds(year, k)) => k = q
        /\ \A z \in DaysOfYear(year) :
              (ParseISO(result.start) <= z /\ z <= ParseISO(result.end)) <=>
                  InBounds(ToISO(z), result)
        /\ \A z \in DaysOfYear(year) :
              \E k \in 1..4 : InBounds(ToISO(z), quarterBounds(year, k))

\* the second quarter of a leap year
C15_Witness ==
    /\ QuarterDone
    /\ year = 2024 /\ q = 2
    /\ result = [start |-> <<2024, 4, 1>>, end |-> <<2024, 6, 30>>]
    /\ ParseISO(<<2024, 12, 31>>) - ParseISO(<<2024, 1, 1>>) = 365

-----------------------------------------------------------------------------
(* Properties of the ranker followed by the forecaster *)

\* the repositories a Forecast Row was written for
Forecasted == {id \in Repos : forecastDir[id] # NULL}

\* C16 as stated: once the ROSS ranker has written its top list for the
\* quarter, the forecaster run for this quarter reads that list and writes
\* one Forecast Row for each repository in it and for no other repository.
C16_Original ==
    (job = "forecast" /\ outFile # NULL) =>
        /\ pc # "enoent"
        /\ pc \in {"loop", "done"} =>
              top = [k \in 1..Len(outFile) |-> [repo |-> outFile[k].row.repo]]
        /\ pc = "done" => Forecasted = OutRepos

-----------------------------------------------------------------------------
(* Frame of the pure functions *)

\* C17: no step of holtWintersAdditive changes the weekly series it was
\* given, the seasonal updates go to the array season built at line 14, and
\* no step of maxRossWindowForQuarter, the cumAt lookups included, changes
\* the cumulative series it was given.
C17_InputsUnchanged == [][series' = series /\ cumulative' = cumulative]_vars

\* a full pass that rewrote seasonal indices of a series starting above 0
C17_Witness ==
    /\ HWDone
    /\ ~TooShort(series, seasonLen)
    /\ series[1] # 0
    /\ season # HWStart(series, seasonLen).season
    /\ t = Len(series)

-----------------------------------------------------------------------------
(* Ties in the scanner and in the ranker *)

\* a = b on two fractions with positive denominators
RelEq(a, b) == a[1] * b[2] = b[1] * a[2]

\* the eligible window ends whose relative gain no eligible window exceeds
MaxRelEnds ==
    LET W == [e \in EligibleEnds |-> RelOf(Window(cumulative, e))]
    IN  {e \in EligibleEnds : \A e2 \in EligibleEnds : ~RelGT(W[e2], W[e])}

\* the earliest day number of a non-empty set of day numbers
Earliest(S) == CHOOSE e \in S : \A e2 \in S : e <= e2

\* C18 as stated: when several window ends attain the same maximal relative
\* gain, the scanner returns the window with the earliest end date among
\* them.
C18_Original ==
    ScanDone =>
        \A M \in {MaxRelEnds} :
            Cardinality(M) >= 2 => IsWindowResult(result, Earliest(M))

\* C18: when the maximal relative gain of the eligible windows is positive,
\* the scanner returns a window of this gain and no eligible window of the
\* same relative gain ends before it; when there are eligible windows and
\* none has a positive relative gain, it returns the sentinel, ties or not.
C18_EarliestPositiveMaximum ==
    ScanDone =>
        /\ result.start # NULL =>
              /\ IsMaxRel(result.rel_gain)
              /\ \E e \in EligibleEnds :
                    /\ IsWindowResult(result, e)
                    /\ \A e2 \in EligibleEnds :
                          RelEq(RelOf(Window(cumulative, e2)), result.rel_gain) => e <= e2
        /\ (\A e \in EligibleEnds : Window(cumulative, e).gain <= 0) => result = Sentinel

\* a later eligible window has the relative gain of the returned one
C18_Witness ==
    /\ ScanDone
    /\ result.start # NULL
    /\ \E e \in EligibleEnds :
          /\ e > ParseISO(result.end)
          /\ RelEq(RelOf(Window(cumulative, e)), result.rel_gain)

\* row a stands before row b in the ranking: a larger rel_gain_90d, or the
\* same one and an earlier place in the enumeration of the directory (the
\* repository of the file at place i of a listing is i)
RanksBefore(a, b) ==
    \/ a.rel_gain_90d > b.rel_gain_90d
    \/ a.rel_gain_90d = b.rel_gain_90d /\ a.repo < b.repo

\* C19: the written output is determined by the listing in its enumeration
\* order: each row is the row of a passing file, rows stand in descending
\* rel_gain_90d, rows of equal rel_gain_90d stand in enumeration order, and
\* every passing file left out by the cut to 100 ranks after every row
\* kept, by rel_gain_90d and then by enumeration order.
C19_StableTieOrder ==
    RankDone =>
        \A P \in {Passing} :
        \A B \in {[i \in P |-> Row(weeklyDir[i], FileBest(i))]} :
            /\ Len(outFile) = (IF Cardinality(P) < TopN THEN Cardinality(P) ELSE TopN)
            /\ \A k \in 1..Len(outFile) :
                  /\ outFile[k].row.repo \in P
                  /\ outFile[k].row = B[outFile[k].row.repo]
                  /\ outFile[k].rank = k
            /\ \A k \in 1..(Len(outFile) - 1) :
                  RanksBefore(outFile[k].row, outFile[k + 1].row)
            /\ \A O \in {OutRepos} :
                  \A i \in P \ O :
                      RanksBefore(outFile[Len(outFile)].row, B[i])

\* the cut to 100 falls between two files of equal rel_gain_90d: the earlier
\* one holds rank 100 and the later one is left out
C19_Witness ==
    /\ RankDone
    /\ Len(outFile) = TopN
    /\ \E i \in Passing \ OutRepos :
          /\ toFixed6(FileBest(i).rel_gain) = outFile[TopN].row.rel_gain_90d
          /\ outFile[TopN].row.repo < i

-----------------------------------------------------------------------------
(* The recurrence of the forecaster *)

\* x + w * (y - x) written as w * y + (1 - w) * x
Blend(w, y, x) == Add(Mul(w, y), Mul(Sub(Num(1), w), x))

\* C20: on a series of n >= seasonLen + 2 values holtWintersAdditive starts
\* from level = series[0], trend = series[1] - series[0] and
\* season[i] = series[i] - series[0]; it updates once for each t = 0..n-1 in
\* ascending order on the slot t mod seasonLen, the trend from the new and
\* the previous level and the seasonal index from the new level; forecast
\* step k is max(0, round(level + k * trend + season[(n - 1 + k) mod seasonLen])).
C20_RecurrenceAndProjection ==
    [][job = "hw" =>
        /\ (pc = "entry" /\ pc' = "smooth") =>
              /\ t' = 0
              /\ level' = Num(series[1])
              /\ trend' = Num(series[2] - series[1])
              /\ season' = [i \in 1..seasonLen |-> Num(series[i] - series[1])]
        /\ (pc = "smooth" /\ pc' = "smooth") =>
              LET y    == Num(series[t + 1])
                  slot == (t % seasonLen) + 1
              IN  /\ t < Len(series) /\ t' = t + 1
                  /\ level' = Blend(alpha, Sub(y, season[slot]), Add(level, trend))
                  /\ trend' = Blend(beta, Sub(level', level), trend)
                  /\ season'[slot] = Blend(gamma, Sub(y, level'), season[slot])
                  /\ \A i \in 1..seasonLen : i # slot => season'[i] = season[i]
        /\ (pc = "smooth" /\ pc' # "smooth") =>
              /\ t = Len(series)
              /\ level' = level /\ trend' = trend /\ season' = season
        /\ (pc = "project" /\ pc' = "done") =>
              /\ level' = level /\ trend' = trend /\ season' = season
              /\ Len(result'.forecast) = horizon
              /\ \A k \in 1..horizon :
                    LET x == Add(Add(level, Mul(Num(k), trend)),
                                 season[((Len(series) - 1 + k) % seasonLen) + 1])
                    IN  result'.forecast[k] = IF MathRound(x) < 0 THEN 0 ELSE MathRound(x)
    ]_vars

\* a full pass over a series that is not constant, in which each of the two
\* seasonal slots is updated twice, with a trend left at the end and a
\* forecast that is not all zeros
C20_Witness ==
    /\ HWDone
    /\ seasonLen = 2
    /\ Len(series) = seasonLen + 2
    /\ series[1] # series[3]
    /\ t = Len(series)
    /\ trend # Num(0)
    /\ horizon = MaxHorizon
    /\ \E k \in 1..horizon : result.forecast[k] > 0

-----------------------------------------------------------------------------
(* Properties of the Forecast Row *)

\* C21: the Forecast Row written for a repository has exactly horizon
\* entries; entry k is labelled "+k", starts 1 + 7 * (k - 1) days after the
\* end date of the last weekly record and ends 6 days after its start, so
\* that each entry starts the day after the previous one ends and the first
\* the day after the last observed week ends; last_week is the week key of
\* the last weekly record.
C21_ForecastCalendarWeeks ==
    (job = "forecast" /\ pc \in {"loop", "done", "threw"}) =>
        \A i \in 1..(r - 1) :
            LET w    == weeklyStore[top[i].repo].weekly
                last == w[Len(w)]
                row  == forecastDir[top[i].repo]
            IN  /\ row # NULL
                /\ row.repo = top[i].repo
                /\ row.horizon_weeks = horizon
                /\ row.last_week = last.week
                /\ Len(row.forecast) = horizon
                /\ \A k \in 1..horizon :
                      /\ row.forecast[k].week = <<"+", k>>
                      /\ ParseISO(row.forecast[k].start)
                            = ParseISO(last.end) + 1 + 7 * (k - 1)
                      /\ ParseISO(row.forecast[k].end)
                            = ParseISO(row.forecast[k].start) + 6
                      /\ ToISO(ParseISO(row.forecast[k].start)) = row.forecast[k].start
                      /\ ToISO(ParseISO(row.forecast[k].end)) = row.forecast[k].end
                      /\ k > 1 => ParseISO(row.forecast[k].start)
                                    = ParseISO(row.forecast[k - 1].end) + 1

\* twelve forecast weeks after a last observed week of December 2025, which
\* run into the next year
C21_Witness ==
    /\ job = "forecast" /\ pc = "done"
    /\ horizon = 12
    /\ forecastDir[1] # NULL
    /\ Len(weeklyStore[1].weekly) = SeasonLen52 + 2
    /\ forecastDir[1].forecast[1].start[1] = 2025
    /\ forecastDir[1].forecast[12].end[1] = 2026
    /\ forecastDir[1].forecast[12].week = <<"+", 12>>

-----------------------------------------------------------------------------
(* Scaling of a cumulative series *)

\* the factors a series is multiplied by
Factors == {2, 3}

\* the series cum with every value multiplied by c
Scale(cum, c) == [i \in 1..Len(cum) |-> [date |-> cum[i].date, value |-> c * cum[i].value]]

Eligible(w) == w.startVal >= MinStartStars

\* C22 as stated: when every value of the series is multiplied by c > 0, a
\* window that is eligible before and after has its relative gain
\* multiplied by c.
C22_Original ==
    ScanRan =>
        \A c \in Factors :
            LET w2 == Window(Scale(cumulative, c), end - 1)
            IN  (Eligible(probe) /\ Eligible(w2)) =>
                    RelEq(RelGain(w2), <<c * RelGain(probe)[1], RelGain(probe)[2]>>)

\* C22: when every value of the series is multiplied by c > 0, a window
\* that is eligible before and after keeps its relative gain, and its start
\* value, end value and absolute gain are multiplied by c.
C22_ScalingKeepsRelGain ==
    ScanRan =>
        \A c \in Factors :
            LET w2 == Window(Scale(cumulative, c), end - 1)
            IN  /\ w2.startVal = c * probe.startVal
                /\ w2.endVal = c * probe.endVal
                /\ w2.gain = c * probe.gain
                /\ (Eligible(probe) /\ Eligible(w2)) => RelEq(RelGain(w2), RelGain(probe))

\* an eligible window with a positive gain
C22_Witness ==
    /\ ScanRan
    /\ Eligible(probe)
    /\ probe.gain > 0
    /\ Eligible(Window(Scale(cumulative, 2), end - 1))

-----------------------------------------------------------------------------
(* Aggregation: the Cumulative Series *)

AggDone == job = "aggregate" /\ pc = "done"

\* the days of the timestamps of a list
DaysOf(list) == {Slice10(list[k]) : k \in 1..Len(list)}

\* the number of timestamps of a list on or before the day D
CountUpTo(list, D) ==
    Cardinality({k \in 1..Len(list) : DateLeq(Slice10(list[k]), D)})

\* c is the Cumulative Series of the timestamps of list
ValidCumulative(c, list) ==
    /\ \A i \in 1..Len(c) : \A j \in 1..Len(c) :
          i < j => /\ DateLeq(c[i].date, c[j].date) /\ c[i].date # c[j].date
                   /\ c[i].value < c[j].value
    /\ {c[i].date : i \in 1..Len(c)} = DaysOf(list)
    /\ Len(c) = Cardinality(DaysOf(list))
    /\ \A i \in 1..Len(c) :
          /\ c[i].value \in Nat /\ c[i].value > 0
          /\ c[i].value = CountUpTo(list, c[i].date)
    /\ Len(list) > 0 => c[Len(c)].value = Len(list)

\* C23: for every list of star timestamps, in any order,
\* toCumulative(toDaily(ts)) is sorted strictly ascending by date and has
\* one entry per day with at least one star; its values are strictly
\* increasing positive integers; the value at each date is the number of
\* timestamps on or before that day and the last value is the number of
\* timestamps.  The cumulative series aggregate_weekly.js writes is this one.
C23_ValidCumulative ==
    job = "aggregate" =>
        /\ ValidCumulative(toCumulative(toDaily(ts)), ts)
        /\ pc = "done" => payload.cumulative = toCumulative(toDaily(ts))

\* a file with two stars on one day and one on a later day has been written
C23_Witness ==
    /\ AggDone
    /\ Len(ts) = 3
    /\ Len(payload.cumulative) = 2
    /\ payload.cumulative[1].value = 2
    /\ payload.cumulative[2].value = 3

-----------------------------------------------------------------------------
(* Aggregation: the Weekly Series *)

\* the ISO weeks of the timestamps of a list, as (ISO year, week number)
WeeksOf(list) ==
    {<<ISOWeekYear(ParseISO(Slice10(list[k]))), ISOWeekNumber(ParseISO(Slice10(list[k])))>> :
        k \in 1..Len(list)}

\* the ISO week a week key names
WeekOfKey(key) == <<key.year, DigitsValue(key.ww, 0)>>

\* the number of timestamps of a list in the ISO week wk
CountInWeek(list, wk) ==
    Cardinality({k \in 1..Len(list) :
        /\ ISOWeekYear(ParseISO(Slice10(list[k]))) = wk[1]
        /\ ISOWeekNumber(ParseISO(Slice10(list[k]))) = wk[2]})

RECURSIVE SumTotals(_, _)
SumTotals(w, i) == IF i > Len(w) THEN 0 ELSE w[i].total + SumTotals(w, i + 1)

\* the week wa is before the week wb
WeekBefore(wa, wb) == wa[1] < wb[1] \/ (wa[1] = wb[1] /\ wa[2] < wb[2])

\* C24: toWeekly emits exactly one record per ISO week that has at least one
\* star and none for a week without stars; every total is at least 1 and is
\* the number of stars of its week, so the totals sum to the number of
\* timestamps; the records are in chronological order; and whenever a day
\* is not after another, its key is not after the other's as a string.
C24_ValidWeekly ==
    AggDone =>
        LET w == payload.weekly
        IN  /\ {WeekOfKey(w[i].week) : i \in 1..Len(w)} = WeeksOf(ts)
            /\ Len(w) = Cardinality(WeeksOf(ts))
            /\ \A i \in 1..Len(w) :
                  /\ w[i].total >= 1
                  /\ w[i].total = CountInWeek(ts, WeekOfKey(w[i].week))
            /\ SumTotals(w, 1) = Len(ts)
            /\ \A i \in 1..Len(w) : \A j \in 1..Len(w) :
                  i < j => WeekBefore(WeekOfKey(w[i].week), WeekOfKey(w[j].week))
            /\ \A a \in DaysOf(ts) : \A b \in DaysOf(ts) :
                  DateLeq(a, b) => ~WeekLess(isoWeekKey(b), isoWeekKey(a))

\* two stars of different calendar years whose weeks are two ISO weeks of
\* one ISO year
C24_Witness ==
    /\ AggDone
    /\ Len(ts) = 2
    /\ ts[1][1] < ts[2][1]
    /\ Len(payload.weekly) = 2
    /\ payload.weekly[1].week.year = payload.weekly[2].week.year

-----------------------------------------------------------------------------
(* The scanner's result *)

\* C25: for every input the result of maxRossWindowForQuarter is the
\* sentinel or a window with quarterStart <= end <= quarterEnd, start 89
\* days before end, start_val the series' value at start and at least 1000,
\* end_val the series' value at end, abs_gain = end_val - start_val > 0 and
\* rel_gain = abs_gain / start_val > 0; rel_gain is never negative.
C25_ResultInvariant ==
    ScanDone =>
        /\ ~RelGT(<<0, 1>>, result.rel_gain)
        /\ \/ result = Sentinel
           \/ /\ result.start # NULL /\ result.end # NULL
              /\ DateLeq(quarterStart, result.end)
              /\ DateLeq(result.end, quarterEnd)
              /\ ParseISO(result.end) - ParseISO(result.start) = 89
              /\ result.start_val = LastAtOrBefore(cumulative, result.start)
              /\ result.start_val >= 1000
              /\ result.end_val = LastAtOrBefore(cumulative, result.end)
              /\ result.abs_gain = result.end_val - result.start_val
              /\ result.abs_gain > 0
              /\ result.rel_gain[1] * result.start_val = result.abs_gain * result.rel_gain[2]
              /\ RelGT(result.rel_gain, <<0, 1>>)

\* a window is returned that starts in the year before the quarter's, for a
\* series that loses stars at some date
C25_Witness ==
    /\ ScanDone
    /\ result.start # NULL
    /\ result.start[1] < result.end[1]
    /\ \E i \in 1..(Len(cumulative) - 1) : cumulative[i].value > cumulative[i + 1].value

-----------------------------------------------------------------------------
(* Zero growth *)

\* the window ending on day number e of the series c: its start value and
\* its gain
WindowOf(c, e) ==
    LET sv == LastAtOrBefore(c, ToISO(e - 89))
    IN  [startVal |-> sv, gain |-> LastAtOrBefore(c, ToISO(e)) - sv]

\* file i holds a series with an eligible window in the requested quarter,
\* and every eligible window of the quarter has gain 0
ZeroGrowth(i) ==
    LET c    == weeklyDir[i].cumulative
        qb   == quarterBounds(year, q)
        ends == ParseISO(qb.start)..ParseISO(qb.end)
    IN  /\ c # UNDEFINED
        /\ \E e \in ends : WindowOf(c, e).startVal >= 1000
        /\ \A e \in ends : WindowOf(c, e).startVal >= 1000 => WindowOf(c, e).gain = 0

\* C26: if every eligible window of the quarter (start value >= 1000) has
\* gain 0, maxRossWindowForQuarter returns the sentinel, with start = null,
\* not a zero-gain window, and the ranker writes no row for the repository.
C26_ZeroGrowthLeftOut ==
    RankDone =>
        \A O \in {OutRepos} :
            \A i \in 1..Len(weeklyDir) :
                ZeroGrowth(i) =>
                    /\ FileBest(i).start = NULL
                    /\ FileBest(i) = Sentinel
                    /\ weeklyDir[i].repo \notin O

\* a .json file of a repository that stays at 1000 stars, listed before a
\* file that is ranked
C26_Witness ==
    /\ RankDone
    /\ Len(weeklyDir) = 2
    /\ weeklyDir[1].json /\ ZeroGrowth(1)
    /\ weeklyDir[2].repo \in OutRepos

-----------------------------------------------------------------------------
(* The rows of the ranker *)

\* what C27 states of a written row but for the sign of rel_gain_90d
RowConsistent(row) ==
    /\ row.window_start_stars >= 1000
    /\ row.abs_gain_90d = row.window_end_stars - row.window_start_stars
    /\ row.abs_gain_90d > 0
    /\ row.rel_gain_90d = toFixed6(<<row.abs_gain_90d, row.window_start_stars>>)
    /\ row.quarter = <<year, q>>
    /\ DateLeq(quarterBounds(year, q).start, row.best_window_end)
    /\ DateLeq(row.best_window_end, quarterBounds(year, q).end)

-----------------------------------------------------------------------------
(* The plain quarter ranker *)

RankQDone == job = "rankq" /\ pc = "done"

\* the .json files of the directory
JsonFiles == {i \in 1..Len(weeklyDir) : weeklyDir[i].json}

\* delta of file i: the stars of the series at the quarter's end less those
\* at its start
DeltaOf(i) ==
    LastAtOrBefore(weeklyDir[i].cumulative, quarterBounds(year, q).end)
    - LastAtOrBefore(weeklyDir[i].cumulative, quarterBounds(year, q).start)

\* C28: rankQuarter, which writes the file the forecaster reads, applies no
\* eligibility filter: every repository of the weekly store gets a row with
\* cumulative_start = cumAt(quarter start), cumulative_end = cumAt(quarter
\* end) and delta = cumulative_end - cumulative_start, rows of delta 0 or of
\* an empty series included; the rows are sorted by delta descending, cut to
\* the first 100 and ranked 1..N.
C28_PlainRanker ==
    RankQDone =>
        \A J \in {JsonFiles} :
            /\ Len(quarterFile) = (IF Cardinality(J) < 100 THEN Cardinality(J) ELSE 100)
            /\ \A k \in 1..Len(quarterFile) :
                  LET row == quarterFile[k].row
                  IN  /\ quarterFile[k].rank = k
                      /\ row.repo \in J
                      /\ row.cumulative_start =
                            LastAtOrBefore(weeklyDir[row.repo].cumulative,
                                           quarterBounds(year, q).start)
                      /\ row.cumulative_end =
                            LastAtOrBefore(weeklyDir[row.repo].cumulative,
                                           quarterBounds(year, q).end)
                      /\ row.delta = row.cumulative_end - row.cumulative_start
                      /\ \A m \in 1..(k - 1) :
                            /\ quarterFile[m].row.repo # row.repo
                            /\ quarterFile[m].row.delta >= row.delta
            /\ \A O \in {{quarterFile[k].row.repo : k \in 1..Len(quarterFile)}} :
                  \A i \in J :
                      i \notin O =>
                          /\ Len(quarterFile) = 100
                          /\ DeltaOf(i) <= quarterFile[100].row.delta

\* a repository with an empty series is written below a repository listed
\* after it that grew
C28_Witness ==
    /\ RankQDone
    /\ Len(quarterFile) = 2
    /\ quarterFile[1].row.delta > 0
    /\ quarterFile[1].row.repo = 2
    /\ quarterFile[2].row.delta = 0
    /\ weeklyDir[quarterFile[2].row.repo].cumulative = <<>>

-----------------------------------------------------------------------------
(* The star store *)

FetchDone == job = "fetch" /\ pc = "done"

Stored == {rawFile.stars[i] : i \in 1..Len(rawFile.stars)}

\* the starred_at of the stargazer list that are strictly newer than
\* knownNewest
NewerAtApi ==
    {api.stars[i] : i \in {j \in 1..Len(api.stars) :
        /\ HasStamp(api.stars[j])
        /\ knownNewest = NULL \/ LexLess(knownNewest, api.stars[j])}}

\* C29 as stated: the API listing oldest first, after every run the store
\* holds every timestamp it held before the run and every starred_at of the
\* API strictly newer than knownNewest; it is sorted ascending; and a run
\* that finds nothing newer leaves the file unchanged.
C29_Original ==
    FetchDone =>
        /\ \A i \in 1..Len(existing) : existing[i] \in Stored
        /\ NewerAtApi \subseteq Stored
        /\ \A i \in 1..(Len(rawFile.stars) - 1) :
              ~LexLess(rawFile.stars[i + 1], rawFile.stars[i])
        /\ NewerAtApi = {} => rawFile.stars = existing

-----------------------------------------------------------------------------
(* Retries of githubRequest *)

ReqDone == job = "request" /\ pc = "done"

\* the i-th response was followed by another send of the request
Retried(i) == i < Len(responses) \/ pc = "call"

AllServerErrors == \A i \in 1..Len(responses) : responses[i].status >= 500

\* C30: a 5xx response is retried, after min(120000, 1000 * 2^attempt) ms,
\* only while attempt <= 6, so that a request that keeps returning 5xx is
\* sent at most 7 times and then returns {ok: false} with the 5xx status; a
\* 403 carrying Retry-After or X-RateLimit-Reset is retried whatever the
\* attempt, and advances the same counter: the i-th send has attempt i.
C30_BoundedRetry ==
    job = "request" =>
        /\ attempt = Len(responses) + (IF pc = "call" THEN 1 ELSE 0)
        /\ \A i \in 1..Len(responses) :
              LET res == responses[i]
              IN  /\ Retried(i) <=>
                        \/ res.status = 403 /\ (res.retryAfter # 0 \/ res.reset # 0)
                        \/ res.status >= 500 /\ i <= 6
                  /\ (Retried(i) /\ res.status >= 500) =>
                        sleeps[i] = (IF 1000 * 2^i < 120000 THEN 1000 * 2^i ELSE 120000)
        /\ AllServerErrors =>
              /\ Len(responses) <= 7
              /\ pc = "done" =>
                    /\ Len(responses) = 7
                    /\ result.ok = FALSE
                    /\ result.status = responses[7].status

\* the request came back failed after seven server errors
C30_Witness ==
    /\ ReqDone
    /\ AllServerErrors
    /\ Len(responses) = 7
    /\ result.ok = FALSE
    /\ sleeps[6] = 64000

====
